---- MODULE Spec2Model ----
(***************************************************************************)
(* A model of pudl_archiver.archivers.classes.AbstractDatasetArchiver:     *)
(*                                                                         *)
(*   - download_all_resources, the fetch driver: it collects the pending   *)
(*     tasks of get_resources, splits them into chunks and runs each chunk *)
(*     through asyncio.as_completed, validating and yielding every record  *)
(*     (specification Spec);                                               *)
(*   - the manifest checks _check_missing_files, _check_file_size and      *)
(*     _check_dataset_size, pure functions of a baseline and a new         *)
(*     datapackage (specification SpecValidate).                           *)
(***************************************************************************)
EXTENDS Integers, Sequences, FiniteSets, TLC

\* Bounds of the model.
MaxTasks == 4
MaxLimit == 2
MaxResources == 2
MaxValues == 2
MaxRetries == 4

\* The tasks of the runs that are followed to their end
MaxFairTasks == 3

\* The responses a buffer may hold when download_zipfile is called on it
MaxHeld == 2

\* The tasks get_resources may yield, named by their submission position.
Tasks == 1..MaxTasks

VARIABLES
    \* ---- the archiver object's configuration and fields
    concurrency_limit,              \* 0 stands for None (both are falsy)
    \* ---- the producer get_resources of the subclass
    producer,                       \* "finite" or "endless"
    surplus,                        \* awaitables collected beyond MaxTasks, modulo 2
    directory_per_resource_chunk,
    download_directory,             \* index of the directory: 0 is the initial one
    allocated,                      \* number of TemporaryDirectory() made so far
    tmp_dir,                        \* the local tmp_dir: None or Some(index of its directory)
    file_validations,               \* the run-scoped validation log
    \* ---- the locals of download_all_resources
    resources,                      \* the awaitables collected from get_resources
    resource_chunks,
    chunk,                          \* index of the chunk the for loop is at
    todo,                           \* iterations left of as_completed's for loop
    done_queue,                     \* as_completed's queue of finished futures
    callbacks,                      \* the tasks whose _on_completion the loop is to call, in order
    pc,                             \* where the generator stands
    raised,                         \* the exception that left the generator
    raised_by,                      \* the task whose exception it is
    \* ---- the tasks (asyncio futures wrapping the awaitables)
    task,                           \* task -> pending/scheduled/running/done/failed
    starts,                         \* task -> times ensure_future wrapped it
    observed,                       \* task -> the download_directory values its body read
    \* ---- what the consumer has seen, and the order of completions
    yielded,
    completed,
    \* ---- the configuration of the manifest checks (class attributes)
    fail_on_missing_files,
    fail_on_file_size_change,
    allowed_file_rel_diff,          \* a fraction <<numerator, denominator>>
    fail_on_dataset_size_change,
    allowed_dataset_rel_diff,       \* a fraction <<numerator, denominator>>
    fail_on_data_continuity,
    test_results,                   \* what the subclass's dataset_validate_archive returns
    \* ---- a call of one of the manifest checks or of validate_dataset
    baseline_datapackage,           \* None or Some(datapackage)
    new_datapackage,
    records,                        \* the resources argument: ResourceInfo by resource name
    set_order,                      \* the order in which the process iterates a set of str
    last_call,                      \* the method that was called last
    outcome,                        \* what the call returned or raised
    previous_outcome,               \* what the validate_dataset before it gave
    \* ---- a call of download_zipfile
    retries,                        \* its argument
    file_kind,                      \* "Path" or "BytesIO"
    file_content,                   \* the responses whose bytes the file holds
    attempts,                       \* is_zipfile after each download_file so far
    zip_pc,                         \* "idle", "loop", "returned" or "raised"
    \* ---- the file-level validations' configuration (class attribute)
    fail_on_empty_invalid_files,
    \* ---- an archiver of the eia package and its constructor's only_years
    archiver,                       \* the class: "EiaRECSArchiver", "EiaMECSArchiver"
    only_years,                     \* self.only_years, the years as a set
    year,                           \* None, or Some(argument of the last valid_year)
    year_tasks,                     \* the years of the awaitables get_resources yielded
    resolved,                       \* awaitable -> what it returned or raised
    \* ---- a call of get_hyperlinks
    document,                       \* the start tags of the fetched page
    filter_pattern                  \* None or Some(pattern)

driver_vars == <<concurrency_limit, producer, surplus,
                 directory_per_resource_chunk,
                 download_directory, allocated, tmp_dir, file_validations, resources,
                 resource_chunks, chunk, todo, done_queue, callbacks, pc,
                 raised, raised_by, task, starts, observed, yielded,
                 completed>>

\* The configuration of the checks and the arguments of a call
check_flags == <<fail_on_missing_files, fail_on_file_size_change,
                 allowed_file_rel_diff, fail_on_dataset_size_change,
                 allowed_dataset_rel_diff, fail_on_data_continuity,
                 test_results>>

check_inputs == <<check_flags, baseline_datapackage, new_datapackage,
                  records, set_order>>

validate_vars == <<check_inputs, last_call, outcome, previous_outcome>>

zip_vars == <<retries, file_kind, file_content, attempts, zip_pc>>

archiver_vars == <<fail_on_empty_invalid_files, archiver, only_years, year,
                   year_tasks, resolved, document, filter_pattern>>

vars == <<driver_vars, validate_vars, zip_vars, archiver_vars>>

\* ------------------------------------------------------------------------
\* Helpers of download_all_resources

Min(a, b) == IF a < b THEN a ELSE b

\* A slip: the quotient is rounded up even when the division is exact
CeilDivAlwaysUp(a, b) == (a \div b) + 1

\* math.ceil(a / b) for a >= 0, b > 0
CeilDiv(a, b) == (a + b - 1) \div b

\* Python's s[lo:hi] on a list, 0-based, hi clipped to the length
Slice(s, lo, hi) == SubSeq(s, lo + 1, Min(hi, Len(s)))

Range(s) == {s[i] : i \in DOMAIN s}

\* A slip: one more task per chunk than the ceiling allows
ChunksizeOffByOne(limit, res) == IF limit # 0 THEN limit + 1 ELSE Len(res)

\* chunksize = self.concurrency_limit if self.concurrency_limit else len(resources)
Chunksize(limit, res) == IF limit # 0 THEN limit ELSE Len(res)

\* A slip: floor instead of math.ceil, the last partial chunk is dropped
ResourceChunksFloor(res, chunksize) ==
    [i \in 1..(Len(res) \div chunksize) |->
        Slice(res, (i - 1) * chunksize, i * chunksize)]

\* [resources[i * chunksize : (i + 1) * chunksize]
\*  for i in range(math.ceil(len(resources) / chunksize))]
ResourceChunks(res, chunksize) ==
    [i \in 1..CeilDiv(Len(res), chunksize) |->
        Slice(res, (i - 1) * chunksize, i * chunksize)]

\* A slip: the loop over as_completed ends one completion early
TodoCountShort(fs) == Cardinality(Range(fs)) - 1

\* as_completed: for _ in range(len(todo))
TodoCount(fs) == Cardinality(Range(fs))

\* A slip: results are taken in submission order (as gather would give them)
NextSubmitted(q) == CHOOSE t \in Range(q) : \A u \in Range(q) : t <= u

\* _wait_for_one: f = await done.get(), the queue is first in first out
NextCompleted(q) == Head(q)

\* A slip: the done callback is missing, a finished future is never queued
OnCompletionLost(q, t) == q

\* as_completed's _on_completion: done.put_nowait(f)
OnCompletion(q, t) == Append(q, t)

\* A slip: the exception of a failed future is swallowed
ResultNeverRaises(t) == FALSE

\* f.result() raises the exception of a failed future
ResultRaises(t) == task[t] = "failed"

\* A slip: the layout check is given True whatever the flag says
ValidateResourceLayoutRequired(t, flag) ==
    << [check |-> "validate_filetype", path |-> t,
        required_for_run_success |-> flag],
       [check |-> "validate_file_not_empty", path |-> t,
        required_for_run_success |-> flag],
       [check |-> "validate_zip_layout", path |-> t,
        required_for_run_success |-> TRUE] >>

\* Lines 522-536 for one record, with `flag` the value of
\* self.fail_on_empty_invalid_files: the three validations in code order,
\* each with the required_for_run_success it is called with
ValidateResource(t, flag) ==
    << [check |-> "validate_filetype", path |-> t,
        required_for_run_success |-> flag],
       [check |-> "validate_file_not_empty", path |-> t,
        required_for_run_success |-> flag],
       [check |-> "validate_zip_layout", path |-> t,
        required_for_run_success |-> flag] >>

\* A slip: the non-empty check is logged before the format check
FileValidationsSwapped(t) ==
    << [check |-> "validate_file_not_empty", path |-> t,
        required_for_run_success |-> fail_on_empty_invalid_files],
       [check |-> "validate_filetype", path |-> t,
        required_for_run_success |-> fail_on_empty_invalid_files],
       [check |-> "validate_zip_layout", path |-> t,
        required_for_run_success |-> fail_on_empty_invalid_files] >>

\* The three file-level validations appended for one record, in code order
FileValidations(t) == ValidateResource(t, fail_on_empty_invalid_files)

\* A slip: lines 541-545 indented into the loop over as_completed, the
\* directory is rotated after every record
RotationDueAfterEachRecord(remaining) == TRUE

\* Lines 541-545 follow the loop over as_completed: they run when none of
\* the chunk's completions remains to be taken
RotationDue(remaining) == remaining = 0

\* A slip: the new TemporaryDirectory is bound to no name,
\* self.download_directory = Path(tempfile.TemporaryDirectory().name), and
\* is cleaned up as soon as it is made
TmpDirUnbound(new) == <<>>

\* tmp_dir = tempfile.TemporaryDirectory(): the local name is bound to the
\* new directory, and the one it was bound to loses its last reference
TmpDirAfterRotation(new) == <<new>>

\* The directories that are on disk: the one __init__ made, which
\* self.download_directory_manager holds, and the one tmp_dir is bound to; a
\* TemporaryDirectory is cleaned up when its last reference goes
ExistingDirectories(local) ==
    {0} \cup {local[i] : i \in DOMAIN local}

\* A slip: the directory is rotated whatever the configuration says
RotatesAlways == TRUE

\* if self.directory_per_resource_chunk: a new directory per resource chunk
RotatesDirectory == directory_per_resource_chunk

\* ------------------------------------------------------------------------
\* Datapackages and the manifest checks

\* An optional value: None, or Some(x)
None == <<>>
Some(x) == <<x>>

\* Resource names: i stands for "resource<i>"
ResourceNames == 1..MaxResources

\* Resource sizes in bytes (resource.bytes_)
Sizes == {0, 10, 20, 23}

\* Thresholds a subclass may configure, as fractions: 0, 0.15 and 0.25
Thresholds == {<<0, 1>>, <<3, 20>>, <<1, 4>>}

\* The datapackage whose resources are DOMAIN size, listed by name, resource
\* n having size[n] bytes; names are unique within a datapackage
DataPackage(size) ==
    LET names == SelectSeq([i \in 1..MaxResources |-> i],
                           LAMBDA n : n \in DOMAIN size)
    IN [resources |-> [k \in 1..Len(names) |->
                          [name |-> names[k], bytes_ |-> size[names[k]],
                           parts |-> <<>>]]]

DataPackages ==
    UNION {{DataPackage(size) : size \in [S -> Sizes]} : S \in SUBSET ResourceNames}

Abs(x) == IF x < 0 THEN -x ELSE x

\* a > b and a < b on fractions with a positive denominator
RatGreaterOrEqual(a, b) == a[1] * b[2] >= b[1] * a[2]

RatGreater(a, b) == a[1] * b[2] > b[1] * a[2]

RatLess(a, b) == a[1] * b[2] < b[1] * a[2]

\* {resource.name for resource in datapackage.resources}
NameSet(dp) == {dp.resources[i].name : i \in DOMAIN dp.resources}

\* {resource.name: resource.bytes_ for resource in datapackage.resources}:
\* a later resource of the same name overwrites an earlier one
BytesByName(dp) ==
    [n \in NameSet(dp) |->
        LET last == CHOOSE i \in DOMAIN dp.resources :
                        /\ dp.resources[i].name = n
                        /\ \A j \in DOMAIN dp.resources :
                              dp.resources[j].name = n => j <= i
        IN dp.resources[last].bytes_]

\* sum([resource.bytes_ for resource in datapackage.resources])
RECURSIVE SumBytes(_)
SumBytes(rs) == IF rs = <<>> THEN 0 ELSE Head(rs).bytes_ + SumBytes(Tail(rs))

\* What a call gave: a returned value, or the exception that left it
Returned(v) == [raised |-> "None", value |-> Some(v)]
Raised(e) == [raised |-> e, value |-> None]

\* A slip: the difference is taken the wrong way round
MissingFilesReversed(baseline_resources, new_resources) ==
    new_resources \ baseline_resources

\* missing_files = baseline_resources - new_resources
MissingFiles(baseline_resources, new_resources) ==
    baseline_resources \ new_resources

\* A slip: the note is written whether or not a file is missing
MissingFilesNotesAlways(missing_files) ==
    Some([text |-> "files would be deleted", files |-> missing_files])

\* notes = None; if len(missing_files) > 0: notes = [f"... {missing_files}"]
MissingFilesNotes(missing_files) ==
    IF Cardinality(missing_files) > 0
    THEN Some([text |-> "files would be deleted", files |-> missing_files])
    ELSE None

_check_missing_files(baseline, new) ==
    LET baseline_resources ==
            IF baseline # None THEN NameSet(baseline[1]) ELSE {}
        new_resources == NameSet(new)
        missing_files == MissingFiles(baseline_resources, new_resources)
        notes == MissingFilesNotes(missing_files)
    IN Returned([name |-> "Missing file test",
                 success |-> Cardinality(missing_files) = 0,
                 notes |-> notes,
                 required_for_run_success |-> fail_on_missing_files])

\* A slip: a change equal to the threshold counts as too large
FileSizeTooChangedOrEqual(new_bytes, baseline_bytes, allowed) ==
    RatGreaterOrEqual(<<Abs(new_bytes - baseline_bytes), baseline_bytes>>,
                      allowed)

\* file_size_change = abs((new - baseline) / baseline), for baseline # 0;
\* file_size_change > self.allowed_file_rel_diff
FileSizeTooChanged(new_bytes, baseline_bytes, allowed) ==
    RatGreater(<<Abs(new_bytes - baseline_bytes), baseline_bytes>>, allowed)

_check_file_size(baseline, new) ==
    LET too_changed_files ==
            IF baseline = None
            THEN {}
            ELSE LET baseline_resources == BytesByName(baseline[1])
                     new_resources == BytesByName(new)
                 IN {n \in DOMAIN baseline_resources :
                        /\ n \in DOMAIN new_resources
                        \* a baseline of 0 raises ZeroDivisionError, which is
                        \* caught: a warning, and the loop goes on
                        /\ baseline_resources[n] # 0
                        /\ FileSizeTooChanged(new_resources[n],
                                              baseline_resources[n],
                                              allowed_file_rel_diff)}
        notes == IF too_changed_files # {}
                 THEN Some([text |-> "files have changed in size",
                            files |-> too_changed_files])
                 ELSE None
    IN Returned([name |-> "Individual file size test",
                 success |-> too_changed_files = {},
                 notes |-> notes,
                 required_for_run_success |-> fail_on_file_size_change])

\* A slip: the flag of the per-file size check, copied with the method
DatasetSizeRequiredCopied == fail_on_file_size_change

\* required_for_run_success=self.fail_on_dataset_size_change
DatasetSizeRequired == fail_on_dataset_size_change

_check_dataset_size(baseline, new) ==
    IF baseline = None
    THEN \* dataset_size_change = 0.0
         Returned([name |-> "Dataset file size test",
                   success |-> RatLess(<<0, 1>>, allowed_dataset_rel_diff),
                   notes |-> None,
                   required_for_run_success |-> DatasetSizeRequired])
    ELSE LET baseline_size == SumBytes(baseline[1].resources)
             new_size == SumBytes(new.resources)
             dataset_size_change == <<Abs(new_size - baseline_size), baseline_size>>
         IN IF baseline_size = 0
            THEN \* (new_size - baseline_size) / baseline_size
                 Raised("ZeroDivisionError")
            ELSE Returned(
                   [name |-> "Dataset file size test",
                    success |-> RatLess(dataset_size_change,
                                        allowed_dataset_rel_diff),
                    notes |-> IF RatGreater(dataset_size_change,
                                            allowed_dataset_rel_diff)
                              THEN Some([text |-> "dataset size changed",
                                         files |-> {}])
                              ELSE None,
                    required_for_run_success |-> DatasetSizeRequired])

\* ------------------------------------------------------------------------
\* _check_data_continuity

VALID_PARTITION_RANGES == <<"year_quarter", "year_month">>

\* A str among the partition values: "1995q4" is Period("q", 1995, 4) and
\* "1995-12" is Period("m", 1995, 12); a str that names no period has the
\* format "other" and a number of its own
Period(fmt, y, n) == [fmt |-> fmt, y |-> y, n |-> n]

\* The quarters and the months the manifests are made of; both run over the
\* end of a year
Quarters == {Period("q", 1995, 4), Period("q", 1996, 1), Period("q", 1996, 2)}
Months == {Period("m", 1995, 11), Period("m", 1995, 12), Period("m", 1996, 1)}

\* The value of a partition key: a list, or a scalar such as year=2020 (an
\* int) or year="2020" (a str, which iterates over its characters)
ListValue(items) == [kind |-> "list", items |-> items]
IntValue == [kind |-> "int", items |-> <<>>]
StrValue ==
    [kind |-> "str",
     items |-> <<Period("other", 0, 2), Period("other", 0, 0),
                 Period("other", 0, 2), Period("other", 0, 0)>>]

\* The non-empty lists of at most MaxValues values, in any order and with
\* repetitions
Lists(S) == UNION {[1..k -> S] : k \in 1..MaxValues}

\* resource.parts, an ordered mapping of one key
Parts(key, value) == <<[key |-> key, value |-> value]>>

QuarterParts == {Parts("year_quarter", ListValue(l)) : l \in Lists(Quarters)}
MonthParts == {Parts("year_month", ListValue(l)) : l \in Lists(Months)}
OtherParts ==
    {Parts("year", IntValue), Parts("year", StrValue),
     Parts("form", ListValue(<<Period("other", 0, 860),
                               Period("other", 0, 923)>>))}

\* The datapackage whose i-th resource has the partitions parts[i]
PartitionedPackage(parts) ==
    [resources |-> [i \in 1..Len(parts) |->
                       [name |-> i, bytes_ |-> 10, parts |-> parts[i]]]]

\* The datapackages of at most MaxResources resources, some of them without
\* partitions, the others partitioned by one and the same kind of key
PartitionedPackages ==
    {PartitionedPackage(parts) :
        parts \in UNION {[1..k -> P \cup {<<>>}] :
                            k \in 0..MaxResources,
                            P \in {QuarterParts, MonthParts, OtherParts}}}

\* a < b on the strings of two partition values of one format: the year
\* comes first and the numbers are of one width
StrLess(a, b) == a.y < b.y \/ (a.y = b.y /\ a.n < b.n)

\* min(dataset_partitions) and max(dataset_partitions)
MinStr(values) ==
    CHOOSE p \in Range(values) : \A q \in Range(values) : ~StrLess(q, p)
MaxStr(values) ==
    CHOOSE p \in Range(values) : \A q \in Range(values) : ~StrLess(p, q)

\* The Timestamp pandas parses from a partition value: the first day of the
\* quarter or of the month, counted in months
ToDatetime(p) ==
    p.y * 12 + (IF p.fmt = "q" THEN 3 * (p.n - 1) ELSE p.n - 1)

\* pd.date_range(start, end, freq): the quarter starts (January, April, July,
\* October) or the month starts from start to end, both included
DateRange(start, end, freq) ==
    {m \in start..end : freq = "MS" \/ m % 3 = 0}

\* A slip: only a period that follows itself counts as a duplicate
HasAdjacentDuplicates(index) ==
    \E i \in DOMAIN index : i + 1 \in DOMAIN index /\ index[i] = index[i + 1]

\* observed_date_range.has_duplicates
HasDuplicates(index) ==
    \E i, j \in DOMAIN index : i < j /\ index[i] = index[j]

\* observed_date_range.duplicated(): the repeated entries
Duplicated(index) ==
    {index[j] : j \in {j \in DOMAIN index :
                          \E i \in DOMAIN index : i < j /\ index[i] = index[j]}}

\* A slip: the two frequencies are exchanged
IntervalSwapped(partition_to_test) ==
    IF partition_to_test = "year_quarter" THEN "MS"
    ELSE IF partition_to_test = "year_month" THEN "QS"
    ELSE "None"

\* interval = "QS" if ... == "year_quarter" else "MS" if ... == "year_month"
Interval(partition_to_test) ==
    IF partition_to_test = "year_quarter" THEN "QS"
    ELSE IF partition_to_test = "year_month" THEN "MS"
    ELSE "None"

\* partition_names = set(partition_names): a set of str iterates in the
\* order of the hashes of its members, which a process draws when it starts
\* (hash randomization); of two names either may come first
SetOrders ==
    {VALID_PARTITION_RANGES,
     <<VALID_PARTITION_RANGES[2], VALID_PARTITION_RANGES[1]>>}

\* [partition for partition in partition_names if partition in
\* VALID_PARTITION_RANGES][0]: the first recognized key in the iteration
\* order of the set; with one recognized key among the names it is that key
PartitionToTest(partition_names) ==
    SelectSeq(set_order, LAMBDA partition : partition \in partition_names)[1]

\* The f-string of the note names the partition that was tested
MissingPartitions(partition_to_test) ==
    IF partition_to_test = "year_quarter"
    THEN "not consecutive, missing year_quarter partitions"
    ELSE "not consecutive, missing year_month partitions"

\* A slip: the values of the recognized key are taken, wherever it stands
RecognizedValue(parts) ==
    LET recognized == SelectSeq(parts,
                          LAMBDA part :
                              part.key \in Range(VALID_PARTITION_RANGES))
    IN IF recognized # <<>> THEN recognized[1].value ELSE parts[1].value

\* list(resource.parts.values())[0]: the value of the first key
FirstValue(parts) == parts[1].value

RECURSIVE Flatten(_)
Flatten(lists) ==
    IF lists = <<>> THEN <<>> ELSE Head(lists) \o Flatten(Tail(lists))

\* A slip: the first value is taken out of resource.parts with a pop
ManifestAfterUnpackPopped(new) ==
    [resources |->
        [i \in DOMAIN new.resources |->
            [new.resources[i] EXCEPT
                !.parts = IF @ = <<>> THEN @ ELSE Tail(@)]]]

\* new_datapackage once the loop over its resources has unpacked them: the
\* names come from list(resource.parts) and the values from
\* list(resource.parts.values())[0], both added to lists of the call's own,
\* so every resource keeps its parts
ManifestAfterUnpack(new) == new

_check_data_continuity(new) ==
    LET \* if not resource.parts: continue
        partitioned == SelectSeq(new.resources, LAMBDA r : r.parts # <<>>)
        \* list(resource.parts.values())[0]
        first_value == [i \in DOMAIN partitioned |->
                           FirstValue(partitioned[i].parts)]
        partition_names ==
            UNION {{partitioned[i].parts[k].key :
                       k \in DOMAIN partitioned[i].parts} :
                   i \in DOMAIN partitioned}
        dataset_partitions ==
            Flatten([i \in DOMAIN first_value |-> first_value[i].items])
        Validation(success, notes) ==
            Returned([name |-> "Validate data continuity",
                      success |-> success,
                      notes |-> notes,
                      required_for_run_success |-> fail_on_data_continuity])
    IN IF \E i \in DOMAIN first_value : first_value[i].kind = "int"
       THEN \* dataset_partitions += <an int>
            Raised("TypeError")
       ELSE IF partition_names \cap Range(VALID_PARTITION_RANGES) = {}
       THEN Validation(TRUE, Some([text |-> "not configured for this test",
                               periods |-> {}]))
       ELSE IF dataset_partitions = <<>>
       THEN \* min() of an empty sequence
            Raised("ValueError")
       ELSE LET partition_to_test == PartitionToTest(partition_names)
                interval == Interval(partition_to_test)
                expected_date_range ==
                    DateRange(ToDatetime(MinStr(dataset_partitions)),
                              ToDatetime(MaxStr(dataset_partitions)),
                              interval)
                observed_date_range ==
                    [i \in DOMAIN dataset_partitions |->
                        ToDatetime(dataset_partitions[i])]
                diff == expected_date_range \ Range(observed_date_range)
            IN IF HasDuplicates(observed_date_range)
               THEN Validation(FALSE,
                           Some([text |-> "duplicate time periods",
                                 periods |-> Duplicated(observed_date_range)]))
               ELSE IF diff # {}
               THEN Validation(FALSE,
                           Some([text |-> MissingPartitions(partition_to_test),
                                 periods |-> diff]))
               ELSE Validation(TRUE, None)

\* ------------------------------------------------------------------------
\* download_zipfile

\* What the server answers: the bytes of a zip archive, of an HTML page, of
\* a PDF, of a file that is no zip and longer than 64 KiB, or no bytes. The
\* pages are short: all those a buffer holds make less than 64 KiB
Responses == {"zip", "html", "pdf", "long", "empty"}

\* download_file: a Path is opened with "wb" and written, a BytesIO is
\* written at its position, which every write and every is_zipfile that
\* finds no zip leave at the end
WriteFile(kind, content, response) ==
    IF kind = "Path"
    THEN IF response = "empty" THEN <<>> ELSE <<response>>
    ELSE IF response = "empty" THEN content ELSE Append(content, response)

\* zipfile.is_zipfile(file): the end record of a zip archive is found in
\* the last 64 KiB (and 22 bytes) of the file: the bytes of a zip, followed
\* by nothing or by less than 64 KiB of other bytes
IsZipfile(content) ==
    \E i \in DOMAIN content :
        /\ content[i] = "zip"
        /\ \A j \in (i + 1)..Len(content) : content[j] # "long"

\* A slip: one download, then `retries` more
AttemptsAndOneMore(n) == n + 1

\* for _ in range(0, retries): the number of iterations at most
Attempts(n) == n

\* ------------------------------------------------------------------------
\* validate_dataset

\* The three checks that come before _check_data_continuity have returned
ReachesContinuity(baseline, new) ==
    /\ _check_missing_files(baseline, new).raised = "None"
    /\ _check_file_size(baseline, new).raised = "None"
    /\ _check_dataset_size(baseline, new).raised = "None"

\* dataset_validate_archive: [] in the base class, the results of its own
\* tests in a subclass
dataset_validate_archive(baseline, new) == test_results

\* self.file_validations after a validate_dataset that returned
\* validations: `validations += self.file_validations` extends the fresh
\* list of line 453 and leaves the log as it was
LogAfterValidate(log, validations) == log

validate_dataset(baseline, new) ==
    LET checks == << _check_missing_files(baseline, new),
                     _check_file_size(baseline, new),
                     _check_dataset_size(baseline, new),
                     _check_data_continuity(new) >>
        raising == {i \in DOMAIN checks : checks[i].raised # "None"}
    IN IF raising # {}
       THEN \* the exception of the first check that raises leaves
            \* validate_dataset
            Raised(checks[CHOOSE i \in raising :
                             \A j \in raising : i <= j].raised)
       ELSE Returned([i \in DOMAIN checks |-> checks[i].value[1]]
                        \o file_validations
                        \o dataset_validate_archive(baseline, new))

\* ------------------------------------------------------------------------
\* The state after __init__

\* self.download_directory as __init__ sets it, and the locals of a
\* download_all_resources that has not run yet
InitDownload ==
    /\ download_directory = 0
    /\ allocated = 1
    /\ tmp_dir = None
    /\ resources = <<>>
    /\ resource_chunks = <<>>
    /\ chunk = 0
    /\ todo = 0
    /\ done_queue = <<>>
    /\ callbacks = <<>>
    /\ surplus = 0
    /\ pc = "collect"
    /\ raised = "None"
    /\ raised_by = {}
    /\ task = [t \in Tasks |-> "pending"]
    /\ starts = [t \in Tasks |-> 0]
    /\ observed = << >>
    /\ yielded = <<>>
    /\ completed = <<>>

\* self.file_validations = [], and no download_all_resources has run
InitArchiver ==
    /\ file_validations = <<>>
    /\ InitDownload

\* The class attributes' defaults
DefaultChecks ==
    /\ fail_on_missing_files = TRUE
    /\ fail_on_file_size_change = TRUE
    /\ allowed_file_rel_diff = <<1, 4>>
    /\ fail_on_dataset_size_change = TRUE
    /\ allowed_dataset_rel_diff = <<3, 20>>
    /\ fail_on_data_continuity = TRUE

\* No manifest check has been called
NoCall == Raised("None")

\* No validation method has been called
InitNoCall ==
    /\ last_call = "None"
    /\ outcome = NoCall
    /\ previous_outcome = NoCall

\* The archiver is no subclass of the eia package, and neither valid_year
\* nor get_hyperlinks has been called
InitNoSubclass ==
    /\ archiver = "MockArchiver"
    /\ only_years = {}
    /\ year = None
    /\ year_tasks = <<>>
    /\ resolved = << >>
    /\ document = <<>>
    /\ filter_pattern = None

\* download_zipfile has not been called
InitNoZip ==
    /\ retries = 0
    /\ file_kind = "Path"
    /\ file_content = <<>>
    /\ attempts = <<>>
    /\ zip_pc = "idle"

\* A run of download_all_resources under every configuration
Init ==
    /\ concurrency_limit \in 0..MaxLimit
    /\ producer \in {"finite", "endless"}
    /\ directory_per_resource_chunk \in BOOLEAN
    /\ InitArchiver
    /\ DefaultChecks
    /\ test_results = <<>>
    /\ records = <<>>
    /\ set_order = VALID_PARTITION_RANGES
    /\ baseline_datapackage = None
    /\ new_datapackage = [resources |-> <<>>]
    /\ InitNoCall
    /\ fail_on_empty_invalid_files = TRUE
    /\ InitNoSubclass
    /\ InitNoZip

\* ------------------------------------------------------------------------
\* download_all_resources

\* for resource_chunk in resource_chunks: the loop reaches chunk i.
\* as_completed wraps every awaitable of the chunk in a future (ensure_future)
\* and the generator suspends in `await resource_coroutine`.
EnterChunk(chunks, i) ==
    IF i <= Len(chunks)
    THEN /\ chunk' = i
         /\ todo' = TodoCount(chunks[i])
         /\ done_queue' = <<>>
         /\ task' = [t \in Tasks |->
                       IF t \in Range(chunks[i]) THEN "scheduled" ELSE task[t]]
         /\ starts' = [t \in Tasks |->
                       IF t \in Range(chunks[i]) THEN starts[t] + 1 ELSE starts[t]]
         /\ pc' = "await"
    ELSE /\ pc' = "done"
         /\ UNCHANGED <<chunk, todo, done_queue, task, starts>>

\* The awaitables the model follows: the first `cap`, and with no ceiling,
\* where the whole list is one batch, no more than the largest batch a
\* ceiling gives
Kept(cap) == IF concurrency_limit = 0 THEN Min(cap, MaxLimit) ELSE cap

\* get_resources yields one more awaitable (line 501 collects it)
Collect(cap) ==
    /\ pc = "collect"
    /\ IF Len(resources) < Kept(cap)
       THEN /\ resources' = Append(resources, Len(resources) + 1)
            /\ UNCHANGED surplus
       ELSE \* the list keeps growing: the model keeps its first Kept(cap)
            \* entries and the parity of the number of the others
            /\ producer = "endless"
            /\ surplus' = 1 - surplus
            /\ UNCHANGED resources
    /\ UNCHANGED <<concurrency_limit, directory_per_resource_chunk,
                   download_directory, allocated, tmp_dir, file_validations,
                   resource_chunks, chunk, todo, done_queue, callbacks, pc, raised,
                   raised_by, task, starts, observed, yielded, completed>>
    /\ UNCHANGED <<producer, validate_vars, zip_vars, archiver_vars>>

Produce == Collect(MaxTasks)

\* The same step in the runs that are followed to their end
ProduceFair == Collect(MaxFairTasks)

\* A driver that would start its batches while the producer still yields
ProducerNotAwaited == TRUE

\* `async for` ends at the producer's StopAsyncIteration, which only a
\* producer that ends raises
ProducerExhausted == producer = "finite"

\* get_resources is exhausted: lines 504-517 run without suspending
SplitIntoChunks ==
    /\ pc = "collect"
    /\ ProducerExhausted
    /\ LET chunksize == Chunksize(concurrency_limit, resources) IN
       IF chunksize = 0
       THEN \* math.ceil(len(resources) / 0)
            /\ pc' = "raised"
            /\ raised' = "ZeroDivisionError"
            /\ UNCHANGED <<resource_chunks, chunk, todo, done_queue, task,
                           starts>>
       ELSE /\ resource_chunks' = ResourceChunks(resources, chunksize)
            /\ EnterChunk(resource_chunks', 1)
            /\ UNCHANGED raised
    /\ UNCHANGED <<concurrency_limit, directory_per_resource_chunk,
                   download_directory, allocated, tmp_dir, file_validations,
                   resources, callbacks, raised_by, observed, yielded,
                   completed>>
    /\ UNCHANGED <<producer, surplus, validate_vars, zip_vars,
                   archiver_vars>>

\* What the body of task t has read of self.download_directory, with one
\* more read
ReadsDirectory(t) ==
    (t :> ((IF t \in DOMAIN observed THEN observed[t] ELSE {})
              \cup {download_directory})) @@ observed

\* What the bodies have read after the first or the last step of task t:
\* the step reads self.download_directory (EiaRECSArchiver.get_year_resources
\* in its first step) or it does not (EiaMECSArchiver.get_year_resources in
\* its first step, and in its last on a page without a table link or after a
\* request that fails)
Observes(t, reads) == IF reads THEN ReadsDirectory(t) ELSE observed

\* The event loop runs the body of a scheduled task up to its first
\* suspension: the body builds its path from self.download_directory
\* (EiaRECSArchiver.get_year_resources) or leaves that for later
\* (EiaMECSArchiver.get_year_resources), and waits for its page
TaskBegin(t, reads) ==
    /\ task[t] = "scheduled"
    /\ task' = [task EXCEPT ![t] = "running"]
    /\ observed' = Observes(t, reads)
    /\ UNCHANGED <<concurrency_limit, directory_per_resource_chunk,
                   download_directory, allocated, tmp_dir, file_validations, resources,
                   resource_chunks, chunk, todo, done_queue, callbacks, pc, raised,
                   raised_by, starts, yielded, completed>>
    /\ UNCHANGED <<producer, surplus, validate_vars, zip_vars,
                   archiver_vars>>

\* How the body of a task may end: it returns its ResourceInfo, it returns
\* something else (EiaMECSArchiver.get_year_resources ends with None,
\* EiaRECSArchiver.get_year_resources with a list), or it raises
TaskResults == {"ResourceInfo", "other", "raise"}

\* The state of a task that has ended
Ended(result) ==
    IF result = "ResourceInfo" THEN "done"
    ELSE IF result = "other" THEN "done_other"
    ELSE "failed"

\* The event loop resumes a running task and the body runs to its next
\* suspension: EiaMECSArchiver.get_year_resources has its table links (line
\* 30), reads self.download_directory for one of them (line 37) and waits
\* for the download of line 40
TaskStep(t) ==
    /\ task[t] = "running"
    /\ observed' = ReadsDirectory(t)
    /\ UNCHANGED <<concurrency_limit, directory_per_resource_chunk,
                   download_directory, allocated, tmp_dir, file_validations,
                   resources, resource_chunks, chunk, todo, done_queue,
                   callbacks, pc, raised, raised_by, task, starts, yielded,
                   completed>>
    /\ UNCHANGED <<producer, surplus, validate_vars, zip_vars,
                   archiver_vars>>

\* The event loop resumes a running task for the last time and the body
\* runs to its end: it returns or raises, with no read of
\* self.download_directory (no table link, a request that raises, the return
\* after the last download), or with one when the download it awaits after
\* the read of line 37 does not suspend; the future is done and the loop is
\* asked to call its done callback (call_soon)
TaskFinish(t, result, reads) ==
    /\ task[t] = "running"
    /\ task' = [task EXCEPT ![t] = Ended(result)]
    /\ observed' = Observes(t, reads)
    /\ callbacks' = Append(callbacks, t)
    /\ completed' = Append(completed, t)
    /\ UNCHANGED <<concurrency_limit, directory_per_resource_chunk,
                   download_directory, allocated, tmp_dir, file_validations,
                   resources, resource_chunks, chunk, todo, done_queue, pc,
                   raised, raised_by, starts, yielded>>
    /\ UNCHANGED <<producer, surplus, validate_vars, zip_vars,
                   archiver_vars>>

\* The event loop calls the done callback that was asked for first:
\* as_completed's _on_completion puts the future on the queue
DoneCallback ==
    /\ callbacks # <<>>
    /\ done_queue' = OnCompletion(done_queue, Head(callbacks))
    /\ callbacks' = Tail(callbacks)
    /\ UNCHANGED <<concurrency_limit, directory_per_resource_chunk,
                   download_directory, allocated, tmp_dir, file_validations,
                   resources, resource_chunks, chunk, todo, pc, raised,
                   raised_by, task, starts, observed, yielded, completed>>
    /\ UNCHANGED <<producer, surplus, validate_vars, zip_vars,
                   archiver_vars>>

\* resource_info.local_path, line 519: the result of a task that ended
\* normally has the attribute when it is a ResourceInfo
HasLocalPath(t) == task[t] = "done"

\* resource_info = await resource_coroutine, lines 518-539: the next finished
\* future is taken; its exception leaves the generator, or its result is no
\* ResourceInfo and line 519 raises AttributeError before anything is
\* validated, or its record is validated and yielded
AwaitNext ==
    /\ pc = "await"
    /\ done_queue # <<>>
    /\ LET t == NextCompleted(done_queue) IN
       /\ done_queue' = SelectSeq(done_queue, LAMBDA u : u # t)
       /\ todo' = todo - 1
       /\ IF ResultRaises(t)
          THEN /\ pc' = "aborted"
               /\ raised' = "TaskError"
               /\ raised_by' = {t}
               /\ UNCHANGED <<file_validations, yielded>>
          ELSE IF ~HasLocalPath(t)
          THEN /\ pc' = "aborted"
               /\ raised' = "AttributeError"
               /\ raised_by' = {t}
               /\ UNCHANGED <<file_validations, yielded>>
          ELSE /\ file_validations' = file_validations \o FileValidations(t)
               /\ yielded' = Append(yielded, t)
               /\ pc' = "yield"
               /\ UNCHANGED <<raised, raised_by>>
    /\ UNCHANGED <<concurrency_limit, directory_per_resource_chunk,
                   download_directory, allocated, tmp_dir, resources,
                   resource_chunks, chunk, callbacks, task, starts, observed,
                   completed>>
    /\ UNCHANGED <<producer, surplus, validate_vars, zip_vars,
                   archiver_vars>>

\* The consumer asks for the next item: the generator resumes after the
\* yield. Either as_completed has more to give, or the chunk is over: lines
\* 541-545 rotate the directory and the for loop goes to the next chunk, or
\* ends: the generator returns and its locals go in the same step, the
\* TemporaryDirectory of tmp_dir with them
Resume ==
    /\ pc = "yield"
    /\ LET rotates == RotationDue(todo) /\ RotatesDirectory
           returns == todo = 0 /\ chunk + 1 > Len(resource_chunks)
       IN /\ IF rotates
             THEN /\ download_directory' = allocated
                  /\ allocated' = allocated + 1
             ELSE UNCHANGED <<download_directory, allocated>>
          /\ tmp_dir' = IF returns THEN None
                        ELSE IF rotates THEN TmpDirAfterRotation(allocated)
                        ELSE tmp_dir
    /\ IF todo > 0
       THEN /\ pc' = "await"
            /\ UNCHANGED <<chunk, todo, done_queue, task, starts>>
       ELSE EnterChunk(resource_chunks, chunk + 1)
    /\ UNCHANGED <<concurrency_limit, directory_per_resource_chunk,
                   file_validations, resources, resource_chunks, callbacks,
                   raised, raised_by, observed, yielded, completed>>
    /\ UNCHANGED <<producer, surplus, validate_vars, zip_vars,
                   archiver_vars>>

\* The consumer leaves the generator while it is suspended at the yield of
\* line 539 (aclose, or the generator is collected after a break): the
\* generator ends there and its locals go, the TemporaryDirectory of tmp_dir
\* with them; the tasks in flight go on
Close ==
    /\ pc = "yield"
    /\ pc' = "closed"
    /\ tmp_dir' = None
    /\ UNCHANGED <<concurrency_limit, directory_per_resource_chunk,
                   download_directory, allocated, file_validations, resources,
                   resource_chunks, chunk, todo, done_queue, callbacks,
                   raised, raised_by, task, starts, observed, yielded,
                   completed>>
    /\ UNCHANGED <<producer, surplus, validate_vars, zip_vars,
                   archiver_vars>>

\* An exception has left the generator: the traceback holds its frame, and
\* when the consumer drops the exception the locals go, and with them the
\* last reference to the TemporaryDirectory of tmp_dir
ReleaseLocals ==
    /\ pc = "aborted"
    /\ tmp_dir # None
    /\ tmp_dir' = None
    /\ UNCHANGED <<concurrency_limit, directory_per_resource_chunk,
                   download_directory, allocated, file_validations, resources,
                   resource_chunks, chunk, todo, done_queue, callbacks, pc,
                   raised, raised_by, task, starts, observed, yielded,
                   completed>>
    /\ UNCHANGED <<producer, surplus, validate_vars, zip_vars,
                   archiver_vars>>

\* The steps of the event loop and of a consumer that keeps asking for the
\* next record
Steps ==
    \/ SplitIntoChunks
    \/ \E t \in Tasks, reads \in BOOLEAN : TaskBegin(t, reads)
    \/ \E t \in Tasks : TaskStep(t)
    \/ \E t \in Tasks, result \in TaskResults, reads \in BOOLEAN :
          TaskFinish(t, result, reads)
    \/ DoneCallback
    \/ AwaitNext
    \/ Resume
    \/ ReleaseLocals

Next ==
    \/ Produce
    \/ Steps
    \/ Close

\* The steps of a run whose consumer never leaves
NextFair ==
    \/ ProduceFair
    \/ Steps

Spec == Init /\ [][Next]_vars

\* The runs with a producer that keeps yielding, an event loop that runs
\* every task that is ready to its end and calls every callback it was asked
\* to call, and a consumer that keeps asking for the next record
FairSpec ==
    /\ Init /\ [][NextFair]_vars
    /\ WF_vars(ProduceFair)
    /\ WF_vars(SplitIntoChunks)
    /\ \A t \in Tasks : WF_vars(\E reads \in BOOLEAN : TaskBegin(t, reads))
    /\ \A t \in Tasks :
          WF_vars(\E result \in TaskResults, reads \in BOOLEAN :
                      TaskFinish(t, result, reads))
    /\ WF_vars(DoneCallback)
    /\ WF_vars(AwaitNext)
    /\ WF_vars(Resume)

\* The same driver in a subclass that sets fail_on_empty_invalid_files or
\* leaves its default, with a producer that ends
InitFileValidations ==
    /\ concurrency_limit \in 0..MaxLimit
    /\ producer = "finite"
    /\ directory_per_resource_chunk \in BOOLEAN
    /\ InitArchiver
    /\ DefaultChecks
    /\ test_results = <<>>
    /\ records = <<>>
    /\ set_order = VALID_PARTITION_RANGES
    /\ baseline_datapackage = None
    /\ new_datapackage = [resources |-> <<>>]
    /\ InitNoCall
    /\ fail_on_empty_invalid_files \in BOOLEAN
    /\ InitNoSubclass
    /\ InitNoZip

SpecFileValidations == InitFileValidations /\ [][Next]_vars

\* ------------------------------------------------------------------------
\* The manifest checks, called on every pair of datapackages

InitValidate ==
    /\ concurrency_limit = 0
    /\ producer = "finite"
    /\ directory_per_resource_chunk = FALSE
    /\ InitArchiver
    /\ fail_on_missing_files = TRUE
    /\ fail_on_file_size_change = TRUE
    /\ allowed_file_rel_diff \in Thresholds
    /\ fail_on_dataset_size_change = TRUE
    /\ allowed_dataset_rel_diff \in Thresholds
    /\ fail_on_data_continuity = TRUE
    /\ test_results = <<>>
    /\ records = <<>>
    /\ set_order = VALID_PARTITION_RANGES
    /\ baseline_datapackage \in {None} \cup {Some(dp) : dp \in DataPackages}
    /\ new_datapackage \in DataPackages
    /\ InitNoCall
    /\ fail_on_empty_invalid_files = TRUE
    /\ InitNoSubclass
    /\ InitNoZip

CheckMissingFiles ==
    /\ last_call' = "_check_missing_files"
    /\ outcome' = _check_missing_files(baseline_datapackage, new_datapackage)
    /\ UNCHANGED <<check_inputs, previous_outcome>>
    /\ UNCHANGED <<driver_vars, zip_vars, archiver_vars>>

CheckFileSize ==
    /\ last_call' = "_check_file_size"
    /\ outcome' = _check_file_size(baseline_datapackage, new_datapackage)
    /\ UNCHANGED <<check_inputs, previous_outcome>>
    /\ UNCHANGED <<driver_vars, zip_vars, archiver_vars>>

CheckDatasetSize ==
    /\ last_call' = "_check_dataset_size"
    /\ outcome' = _check_dataset_size(baseline_datapackage, new_datapackage)
    /\ UNCHANGED <<check_inputs, previous_outcome>>
    /\ UNCHANGED <<driver_vars, zip_vars, archiver_vars>>

NextValidate ==
    \/ CheckMissingFiles
    \/ CheckFileSize
    \/ CheckDatasetSize

SpecValidate == InitValidate /\ [][NextValidate]_vars

\* ------------------------------------------------------------------------
\* The continuity check, called on every partitioned datapackage

InitContinuity ==
    /\ concurrency_limit = 0
    /\ producer = "finite"
    /\ directory_per_resource_chunk = FALSE
    /\ InitArchiver
    /\ DefaultChecks
    /\ test_results = <<>>
    /\ records = <<>>
    /\ set_order = VALID_PARTITION_RANGES
    /\ baseline_datapackage = None
    /\ new_datapackage \in PartitionedPackages
    /\ InitNoCall
    /\ fail_on_empty_invalid_files = TRUE
    /\ InitNoSubclass
    /\ InitNoZip

CheckDataContinuity ==
    /\ last_call' = "_check_data_continuity"
    /\ previous_outcome' =
          IF last_call = "_check_data_continuity" THEN outcome ELSE NoCall
    /\ outcome' = _check_data_continuity(new_datapackage)
    /\ new_datapackage' = ManifestAfterUnpack(new_datapackage)
    /\ UNCHANGED <<check_flags, baseline_datapackage, records, set_order>>
    /\ UNCHANGED <<driver_vars, zip_vars, archiver_vars>>

NextContinuity == CheckDataContinuity

SpecContinuity == InitContinuity /\ [][NextContinuity]_vars

\* ------------------------------------------------------------------------
\* The continuity check on resources partitioned by more than one key, in
\* processes that iterate their sets in either order

\* Two consecutive quarters
MixedQuarters == {Period("q", 1995, 4), Period("q", 1996, 1)}

\* The str "1995" and "1996": pandas reads a year as its first of January
YearStrings == {Period("y", 1995, 1), Period("y", 1996, 1)}

\* resource.parts whose first key is year_quarter, alone or followed by
\* year_month
QuarterFirstParts ==
    UNION {{Parts("year_quarter", ListValue(l)),
            Parts("year_quarter", ListValue(l))
                \o Parts("year_month", ListValue(<<Period("m", 1995, 12)>>))} :
           l \in Lists(MixedQuarters)}

\* resource.parts whose first key is year, alone or followed by a
\* recognized key
YearFirstParts ==
    UNION {{Parts("year", ListValue(l)),
            Parts("year", ListValue(l))
                \o Parts("year_quarter", ListValue(<<Period("q", 1995, 4)>>)),
            Parts("year", ListValue(l))
                \o Parts("year_month", ListValue(<<Period("m", 1995, 12)>>))} :
           l \in Lists(YearStrings)}

\* The datapackages of at most MaxResources resources, some of them without
\* partitions, the others with one and the same first key
MixedPackages ==
    {PartitionedPackage(parts) :
        parts \in UNION {[1..k -> P \cup {<<>>}] :
                            k \in 0..MaxResources,
                            P \in {QuarterFirstParts, YearFirstParts}}}

InitMixedContinuity ==
    /\ concurrency_limit = 0
    /\ producer = "finite"
    /\ directory_per_resource_chunk = FALSE
    /\ InitArchiver
    /\ DefaultChecks
    /\ test_results = <<>>
    /\ records = <<>>
    /\ set_order \in SetOrders
    /\ baseline_datapackage = None
    /\ new_datapackage \in MixedPackages
    /\ InitNoCall
    /\ fail_on_empty_invalid_files = TRUE
    /\ InitNoSubclass
    /\ InitNoZip

\* A later run of the archiver is a process of its own, and draws the
\* hashes of its str anew
NewProcess ==
    /\ set_order' \in SetOrders \ {set_order}
    /\ UNCHANGED <<check_flags, baseline_datapackage, new_datapackage,
                   records, last_call, outcome, previous_outcome>>
    /\ UNCHANGED <<driver_vars, zip_vars, archiver_vars>>

NextMixedContinuity ==
    \/ CheckDataContinuity
    \/ NewProcess

SpecMixedContinuity == InitMixedContinuity /\ [][NextMixedContinuity]_vars

\* ------------------------------------------------------------------------
\* validate_dataset, called once a download has filled the validation log

\* What download_all_resources has logged: nothing, the validations of one
\* file, or those of two files in the order of their completion
ValidationLogs ==
    {<<>>, ValidateResource(1, TRUE),
     ValidateResource(2, TRUE) \o ValidateResource(1, TRUE)}

\* The resources argument of validate_dataset: no record when nothing was
\* downloaded, or the record of a downloaded file under its name
RecordMappings ==
    {<<>>, <<[name |-> 1, local_path |-> 0, partitions |-> <<>>]>>}

\* What a subclass's dataset_validate_archive may return
HookResults ==
    {<<>>,
     <<[name |-> "Dataset specific test", success |-> FALSE, notes |-> None,
        required_for_run_success |-> TRUE]>>}

\* The new manifests validate_dataset is called on: the sized ones, and the
\* partitioned ones of one resource
NewDataPackages ==
    DataPackages
        \cup {dp \in PartitionedPackages : Len(dp.resources) = 1}

InitValidateDataset ==
    /\ concurrency_limit = 0
    /\ producer = "finite"
    /\ directory_per_resource_chunk = FALSE
    /\ file_validations \in ValidationLogs
    /\ InitDownload
    /\ DefaultChecks
    /\ test_results \in HookResults
    /\ records \in {r \in RecordMappings :
                      (r = <<>>) <=> (file_validations = <<>>)}
    /\ set_order = VALID_PARTITION_RANGES
    /\ baseline_datapackage \in {None} \cup {Some(dp) : dp \in DataPackages}
    /\ new_datapackage \in NewDataPackages
    /\ InitNoCall
    /\ fail_on_empty_invalid_files = TRUE
    /\ InitNoSubclass
    /\ InitNoZip

ValidateDataset ==
    /\ last_call' = "validate_dataset"
    /\ previous_outcome' =
          IF last_call = "validate_dataset" THEN outcome ELSE NoCall
    /\ outcome' = validate_dataset(baseline_datapackage, new_datapackage)
    /\ file_validations' =
          IF outcome'.raised = "None"
          THEN LogAfterValidate(file_validations, outcome'.value[1])
          ELSE file_validations
    /\ new_datapackage' =
          IF ReachesContinuity(baseline_datapackage, new_datapackage)
          THEN ManifestAfterUnpack(new_datapackage)
          ELSE new_datapackage
    /\ UNCHANGED <<check_flags, baseline_datapackage, records, set_order>>
    /\ UNCHANGED <<concurrency_limit, producer, surplus,
                   directory_per_resource_chunk, download_directory,
                   allocated, tmp_dir, resources, resource_chunks, chunk, todo,
                   done_queue, callbacks, pc, raised, raised_by, task, starts, observed,
                   yielded, completed>>
    /\ UNCHANGED <<zip_vars, archiver_vars>>

NextValidateDataset == ValidateDataset

SpecValidateDataset == InitValidateDataset /\ [][NextValidateDataset]_vars

\* ------------------------------------------------------------------------
\* download_zipfile(url, file, retries), called on a new file or on one
\* that earlier calls of download_file have written

InitZipfile ==
    /\ concurrency_limit = 0
    /\ producer = "finite"
    /\ directory_per_resource_chunk = FALSE
    /\ InitArchiver
    /\ DefaultChecks
    /\ test_results = <<>>
    /\ records = <<>>
    /\ set_order = VALID_PARTITION_RANGES
    /\ baseline_datapackage = None
    /\ new_datapackage = [resources |-> <<>>]
    /\ InitNoCall
    /\ fail_on_empty_invalid_files = TRUE
    /\ InitNoSubclass
    /\ retries \in 0..MaxRetries
    /\ file_kind \in {"Path", "BytesIO"}
    /\ file_content = <<>>
    /\ attempts = <<>>
    /\ zip_pc = "idle"

\* download_file(url, file) is called on its own, before download_zipfile
\* is called on the same file: the response is written as in the loop, and
\* a BytesIO is left at its end
CallDownloadFile(response) ==
    /\ zip_pc = "idle"
    /\ Len(file_content) < MaxHeld
    /\ file_content' = WriteFile(file_kind, file_content, response)
    /\ UNCHANGED <<retries, file_kind, attempts, zip_pc>>
    /\ UNCHANGED <<driver_vars, validate_vars, archiver_vars>>

\* The call runs up to its first suspension, in the first download_file, or
\* to the raise that follows an empty loop
CallDownloadZipfile ==
    /\ zip_pc = "idle"
    /\ zip_pc' = IF Attempts(retries) > 0 THEN "loop" ELSE "raised"
    /\ UNCHANGED <<retries, file_kind, file_content, attempts>>
    /\ UNCHANGED <<driver_vars, validate_vars, archiver_vars>>

\* download_file gets its response and writes it; is_zipfile ends the call,
\* or the loop goes to its next download_file, or it is over and the call
\* raises RuntimeError
DownloadFile(response) ==
    /\ zip_pc = "loop"
    /\ file_content' = WriteFile(file_kind, file_content, response)
    /\ attempts' = Append(attempts, IsZipfile(file_content'))
    /\ zip_pc' = IF IsZipfile(file_content') THEN "returned"
                  ELSE IF Len(attempts') < Attempts(retries) THEN "loop"
                  ELSE "raised"
    /\ UNCHANGED <<retries, file_kind>>
    /\ UNCHANGED <<driver_vars, validate_vars, archiver_vars>>

NextZipfile ==
    \/ \E response \in Responses : CallDownloadFile(response)
    \/ CallDownloadZipfile
    \/ \E response \in Responses : DownloadFile(response)

SpecZipfile == InitZipfile /\ [][NextZipfile]_vars

\* ------------------------------------------------------------------------
\* Vocabulary of the properties of download_all_resources

\* The tasks get_resources submitted
Submitted == Range(resources)

\* How many times x occurs in s
Occurrences(s, x) == Cardinality({i \in DOMAIN s : s[i] = x})

\* The position of x in s (x occurs in s)
Pos(s, x) == CHOOSE i \in DOMAIN s : s[i] = x

\* The batch task t was put in, counted from 1 (0 before the split)
ChunkIndex(t) ==
    IF \E i \in DOMAIN resource_chunks : t \in Range(resource_chunks[i])
    THEN CHOOSE i \in DOMAIN resource_chunks : t \in Range(resource_chunks[i])
    ELSE 0

\* Started and not yet completed
InFlight == {t \in Tasks : task[t] \in {"scheduled", "running"}}

\* The completions the driver has taken from as_completed
Taken == Range(completed) \ (Range(done_queue) \cup Range(callbacks))

\* C1: with every task succeeding, that is returning its record, a run over
\* K >= 1 tasks that has ended has
\* started every submitted task exactly once and yielded every record
\* exactly once, K records in all; no task is ever started or yielded twice.
C1_ExactlyOnce ==
    /\ \A t \in Tasks : starts[t] <= 1 /\ Occurrences(yielded, t) <= 1
    /\ Range(yielded) \subseteq Submitted
    /\ ( /\ Len(resources) >= 1
         /\ pc \in {"done", "aborted", "raised"}
         /\ \A t \in Tasks : task[t] \notin {"failed", "done_other"} )
       => /\ pc = "done"
          /\ Len(yielded) = Len(resources)
          /\ \A t \in Submitted : starts[t] = 1 /\ Occurrences(yielded, t) = 1

C1_Witness ==
    /\ pc = "done"
    /\ concurrency_limit = 2
    /\ Len(resources) = 3
    /\ Len(yielded) = 3

\* C2: with a ceiling set, at most that many tasks are started and not yet
\* completed.
C2_AtMostCInFlight ==
    concurrency_limit # 0 => Cardinality(InFlight) <= concurrency_limit

C2_Witness ==
    /\ concurrency_limit = 2
    /\ chunk = 2
    /\ Cardinality(InFlight) = 2

\* C3: a task of batch N+1 is started only when every task of batch N has
\* completed and its record has been yielded.
C3_BatchesSequential ==
    \A b \in Submitted :
        task[b] # "pending" =>
            LET next == ChunkIndex(b) IN
            next >= 2 =>
                \A a \in Range(resource_chunks[next - 1]) :
                    task[a] = "done" /\ a \in Range(yielded)

C3_Witness ==
    /\ concurrency_limit = 2
    /\ task[3] = "running"
    /\ task[4] = "scheduled"
    /\ Range(yielded) = {1, 2}

\* C4: records are yielded in completion order: the yielded records are the
\* first completions, in their order, so of two tasks of one batch the one
\* that completed first is yielded first, whatever their submission
\* positions; and the driver puts no order on the completions of a batch:
\* any scheduled task may be the next to run, any running task the next to
\* complete.
C4_CompletionOrder ==
    /\ \A t \in Tasks : task[t] = "scheduled" => ENABLED TaskBegin(t, TRUE)
    /\ \A t \in Tasks :
          task[t] = "running" => ENABLED TaskFinish(t, "ResourceInfo", TRUE)
    /\ Len(yielded) <= Len(completed)
    /\ \A i \in DOMAIN yielded : yielded[i] = completed[i]
    /\ \A a, b \in Range(yielded) :
        ( /\ ChunkIndex(a) = ChunkIndex(b)
          /\ Pos(completed, a) < Pos(completed, b) )
        => Pos(yielded, a) < Pos(yielded, b)

\* Two batches of two, each yielded in the reverse of its submission order
C4_Witness ==
    /\ concurrency_limit = 2
    /\ yielded = <<2, 1, 4, 3>>

\* C5: a failed task the driver reaches aborts the run with that task's
\* error: nothing is yielded after it, no task of a later batch is started,
\* and no task is started a second time. The only other abort is that of a
\* task whose result is no record.
C5_FailureAborts ==
    /\ \A t \in Tasks : starts[t] <= 1
    /\ (pc = "aborted") <=> (raised \in {"TaskError", "AttributeError"})
    /\ \A t \in Tasks :
        (task[t] = "failed" /\ t \in Taken)
        => pc = "aborted" /\ raised = "TaskError" /\ raised_by = {t}
    /\ pc = "aborted" =>
        \E f \in Tasks :
            /\ raised_by = {f}
            /\ task[f] \in {"failed", "done_other"}
            /\ task[f] = "failed" <=> raised = "TaskError"
            /\ Len(completed) > Len(yielded)
            /\ completed[Len(yielded) + 1] = f
            /\ \A t \in Tasks : task[t] \in {"failed", "done_other"} /\ t # f
                    => Pos(completed, f) < Pos(completed, t)
            /\ f \notin Range(yielded)
            /\ \A t \in Submitted : ChunkIndex(t) > ChunkIndex(f)
                    => task[t] = "pending" /\ starts[t] = 0

\* The run was aborted by the second batch: a record had been yielded, a
\* sibling of the failed task is still running, the last batch never starts
C5_Witness ==
    /\ pc = "aborted"
    /\ concurrency_limit = 2
    /\ Len(resources) = 4
    /\ Range(yielded) = {1}
    /\ raised_by = {2}
    /\ task[3] = "pending"

\* C6: the validation log holds, for every yielded record in yield order,
\* its three results: format check, non-empty check, layout check; 3n
\* entries after n records.
C6_ValidationLog ==
    /\ Len(file_validations) = 3 * Len(yielded)
    /\ \A i \in DOMAIN yielded :
        /\ file_validations[3 * i - 2].check = "validate_filetype"
        /\ file_validations[3 * i - 2].path = yielded[i]
        /\ file_validations[3 * i - 1].check = "validate_file_not_empty"
        /\ file_validations[3 * i - 1].path = yielded[i]
        /\ file_validations[3 * i].check = "validate_zip_layout"
        /\ file_validations[3 * i].path = yielded[i]

C6_Witness ==
    /\ pc = "yield"
    /\ yielded = <<2, 1>>
    /\ Len(file_validations) = 6

\* C7: with rotation every task of the k-th batch (from 0) reads the k-th
\* directory allocated; without rotation every task reads the initial one.
C7_DirectoryPerChunk ==
    \A t \in DOMAIN observed :
        \A d \in observed[t] :
            d = IF directory_per_resource_chunk THEN ChunkIndex(t) - 1 ELSE 0

C7_Witness ==
    /\ directory_per_resource_chunk
    /\ concurrency_limit = 2
    /\ 3 \in DOMAIN observed
    /\ task[3] = "done"
    /\ observed[3] = {1}
    /\ 1 \in DOMAIN observed
    /\ observed[1] = {0}

\* ------------------------------------------------------------------------
\* Vocabulary of the properties of the manifest checks

\* The resources of the baseline (none when there is no baseline)
BaselineResources ==
    IF baseline_datapackage = None
    THEN {}
    ELSE Range(baseline_datapackage[1].resources)

NewResources == Range(new_datapackage.resources)

\* The ValidationResult the last call returned
Result == outcome.value[1]

\* Total size of a set of resources with distinct names
RECURSIVE TotalSize(_)
TotalSize(rs) ==
    IF rs = {} THEN 0
    ELSE LET r == CHOOSE x \in rs : TRUE IN r.bytes_ + TotalSize(rs \ {r})

\* C8: _check_missing_files succeeds exactly when every resource name of the
\* baseline is a name of the new manifest: always without a baseline, and
\* whatever names only the new manifest has.
C8_MissingFilesIff ==
    last_call = "_check_missing_files" =>
        /\ outcome.raised = "None"
        /\ Result.success <=>
              \A b \in BaselineResources :
                  \E n \in NewResources : n.name = b.name
        /\ baseline_datapackage = None => Result.success

\* A baseline name is gone from the new manifest, which has a name of its own
C8_Witness ==
    /\ last_call = "_check_missing_files"
    /\ baseline_datapackage # None
    /\ \E b \in BaselineResources : \A n \in NewResources : n.name # b.name
    /\ \E n \in NewResources : \A b \in BaselineResources : n.name # b.name
    /\ ~Result.success

\* C9: _check_file_size fails exactly when a resource in both manifests has
\* a nonzero baseline size and |new - base| / base > allowed_file_rel_diff;
\* a zero baseline size, a resource in one manifest only and a missing
\* baseline never make it fail.
C9_FileSizeIff ==
    last_call = "_check_file_size" =>
        /\ outcome.raised = "None"
        /\ ~Result.success <=>
              \E b \in BaselineResources, n \in NewResources :
                  /\ n.name = b.name
                  /\ b.bytes_ # 0
                  /\ Abs(n.bytes_ - b.bytes_) * allowed_file_rel_diff[2]
                        > allowed_file_rel_diff[1] * b.bytes_

\* The check passes with one resource grown from a zero baseline and another
\* changed by exactly the threshold
C9_Witness ==
    /\ last_call = "_check_file_size"
    /\ allowed_file_rel_diff = <<3, 20>>
    /\ \E b \in BaselineResources, n \in NewResources :
          n.name = b.name /\ b.bytes_ = 0 /\ n.bytes_ = 10
    /\ \E b \in BaselineResources, n \in NewResources :
          n.name = b.name /\ b.bytes_ = 20 /\ n.bytes_ = 23
    /\ Result.success

\* C10: with a baseline of nonzero total size, _check_dataset_size fails
\* exactly when |sum new - sum baseline| / sum baseline is strictly greater
\* than allowed_dataset_rel_diff, so a change equal to the threshold passes;
\* the sums run over all the resources of each manifest.
C10_DatasetSizeIff ==
    ( /\ last_call = "_check_dataset_size"
      /\ baseline_datapackage # None
      /\ TotalSize(BaselineResources) # 0 )
    => /\ outcome.raised = "None"
       /\ ~Result.success <=>
             Abs(TotalSize(NewResources) - TotalSize(BaselineResources))
                   * allowed_dataset_rel_diff[2]
                > allowed_dataset_rel_diff[1] * TotalSize(BaselineResources)

\* C11: without a baseline, _check_dataset_size passes for every new manifest
\* and every threshold allowed_dataset_rel_diff >= 0, a threshold of 0
\* included.
C11_NullBaselinePasses ==
    (last_call = "_check_dataset_size" /\ baseline_datapackage = None)
    => /\ outcome.raised = "None"
       /\ Result.success

\* C12: _check_dataset_size never raises: for every pair of manifests, a
\* baseline of total size zero included, it returns a ValidationResult.
C12_DatasetSizeNeverRaises ==
    last_call = "_check_dataset_size" =>
        /\ outcome.raised = "None"
        /\ outcome.value # None
        /\ Result.name = "Dataset file size test"

\* ------------------------------------------------------------------------
\* Vocabulary of the properties of the continuity check

\* The resources of the new manifest that carry partitions
PartitionedResources == {r \in NewResources : r.parts # <<>>}

\* The partition keys the new manifest uses
KeysUsed ==
    UNION {{r.parts[k].key : k \in DOMAIN r.parts} : r \in PartitionedResources}

\* Some resource is partitioned by year_quarter or by year_month
TimePartitioned == KeysUsed \cap {"year_quarter", "year_month"} # {}

\* The values a resource lists under its partition key
ValuesOf(r) == r.parts[1].value.items

CollectedPeriods == UNION {Range(ValuesOf(r)) : r \in PartitionedResources}

\* A period is listed twice by one resource, or by two resources
PeriodRepeated ==
    \E p \in CollectedPeriods :
        \/ \E r \in PartitionedResources : Occurrences(ValuesOf(r), p) > 1
        \/ \E r1, r2 \in PartitionedResources :
              /\ r1 # r2
              /\ p \in Range(ValuesOf(r1))
              /\ p \in Range(ValuesOf(r2))

\* Quarters, and months, numbered so that consecutive periods have
\* consecutive numbers
PeriodNumber(p) ==
    IF p.fmt = "q" THEN p.y * 4 + p.n - 1 ELSE p.y * 12 + p.n - 1

\* Every period from the earliest to the latest collected one is collected
GapFree ==
    LET numbers == {PeriodNumber(p) : p \in CollectedPeriods}
    IN \A a, b \in numbers : \A k \in a..b : k \in numbers

\* C13: for a manifest partitioned by year_quarter (or year_month) whose
\* collected values have no duplicates, _check_data_continuity succeeds
\* exactly when the values are every quarter (month) from the smallest to
\* the largest one: a missing period in between fails, a range that starts
\* late or ends early passes.
C13_ContinuityIff ==
    ( /\ last_call = "_check_data_continuity"
      /\ TimePartitioned
      /\ ~PeriodRepeated )
    => /\ outcome.raised = "None"
       /\ Result.success <=> GapFree

\* Two resources list 1995-11 and 1996-01: December is missing, the check
\* fails
C13_Witness ==
    /\ last_call = "_check_data_continuity"
    /\ KeysUsed = {"year_month"}
    /\ Cardinality(PartitionedResources) = 2
    /\ CollectedPeriods = {Period("m", 1995, 11), Period("m", 1996, 1)}
    /\ ~PeriodRepeated
    /\ ~Result.success

\* C14: when the collected time-partition values hold a period more than
\* once, within one resource or across two, _check_data_continuity fails,
\* even if the distinct periods are gap-free.
C14_DuplicatesFail ==
    ( /\ last_call = "_check_data_continuity"
      /\ TimePartitioned
      /\ PeriodRepeated )
    => /\ outcome.raised = "None"
       /\ ~Result.success

\* Two resources list 1995q4, apart from each other in the collected
\* values, and the distinct quarters are gap-free
C14_Witness ==
    /\ last_call = "_check_data_continuity"
    /\ \E r1, r2 \in PartitionedResources :
          /\ r1.name < r2.name
          /\ ValuesOf(r1) = <<Period("q", 1995, 4), Period("q", 1996, 1)>>
          /\ ValuesOf(r2) = <<Period("q", 1995, 4), Period("q", 1996, 2)>>
    /\ GapFree
    /\ ~Result.success

\* C15: when no resource of the new manifest uses year_quarter or
\* year_month, _check_data_continuity returns success with a note and does
\* not raise, whatever the partitions are: none, lists, or scalars such as
\* year=2020.
C15_NotApplicablePasses ==
    (last_call = "_check_data_continuity" /\ ~TimePartitioned)
    => /\ outcome.raised = "None"
       /\ Result.success
       /\ Result.notes # None

\* ------------------------------------------------------------------------
\* Vocabulary of the properties of validate_dataset

\* The list validate_dataset returned
Validations == outcome.value[1]

\* C16: validate_dataset never short-circuits: it returns the results of the
\* missing-files, per-file size, dataset size and continuity checks, in this
\* order, then the file-level validations in log order, then the results of
\* the dataset_validate_archive hook: 4 + |file_validations| + |hook
\* results| results, whatever the earlier checks found.
C16_AllChecksInOrder ==
    last_call = "validate_dataset" =>
        /\ outcome.raised = "None"
        /\ Len(Validations) = 4 + Len(file_validations) + Len(test_results)
        /\ Validations[1].name = "Missing file test"
        /\ Validations[2].name = "Individual file size test"
        /\ Validations[3].name = "Dataset file size test"
        /\ Validations[4].name = "Validate data continuity"
        /\ SubSeq(Validations, 5, 4 + Len(file_validations))
              = file_validations
        /\ SubSeq(Validations, 5 + Len(file_validations), Len(Validations))
              = test_results

\* C17 (as claimed): validate_dataset is idempotent: two calls in a row,
\* with the same manifests and records and no download in between, return
\* two lists of results, and the two lists are identical.
C17_TwoIdenticalLists ==
    (last_call = "validate_dataset" /\ previous_outcome # NoCall) =>
        /\ previous_outcome.raised = "None"
        /\ outcome.raised = "None"
        /\ outcome.value = previous_outcome.value

\* ------------------------------------------------------------------------
\* Properties of download_zipfile

\* C18: download_zipfile(url, file, retries=R) stops at the first attempt
\* after which the file is a valid zip: it returns after exactly j attempts
\* when the j-th is the first valid one, j <= R, and raises RuntimeError
\* after exactly R attempts, never more, when none of them gave a valid zip.
C18_StopsAtFirstValid ==
    /\ Len(attempts) <= retries
    /\ \A i \in DOMAIN attempts : attempts[i] => i = Len(attempts)
    /\ zip_pc = "returned" <=>
          (attempts # <<>> /\ attempts[Len(attempts)])
    /\ zip_pc = "raised" <=>
          /\ zip_pc # "idle"
          /\ Len(attempts) = retries
          /\ \A i \in DOMAIN attempts : ~attempts[i]
    /\ zip_pc = "loop" <=>
          /\ zip_pc # "idle"
          /\ Len(attempts) < retries
          /\ \A i \in DOMAIN attempts : ~attempts[i]

\* The third of three attempts is the first to leave a valid zip in the
\* BytesIO, after the bytes of the two earlier responses
C18_Witness ==
    /\ zip_pc = "returned"
    /\ retries = 3
    /\ file_kind = "BytesIO"
    /\ attempts = <<FALSE, FALSE, TRUE>>
    /\ Len(file_content) = 3

\* ------------------------------------------------------------------------
\* Properties of download_all_resources and its producer

\* C19 as stated: with a ceiling set and a producer that never ends, the
\* first record is eventually yielded.
C19_FirstRecordEventually ==
    (producer = "endless" /\ concurrency_limit > 0) ~> (yielded # <<>>)

\* C19: download_all_resources collects every awaitable of the producer
\* before it starts the first batch: while the producer has not ended no
\* task is started and no record is yielded, and with a producer that never
\* ends the driver never leaves the collection.
C19_CollectsBeforeFirstBatch ==
    /\ pc = "collect" =>
          /\ \A t \in Tasks : task[t] = "pending"
          /\ resource_chunks = <<>>
          /\ yielded = <<>>
    /\ producer = "endless" => pc = "collect"

\* A never-ending producer has yielded more than a batch of awaitables, and
\* more than the model counts, with a ceiling of 1: nothing has started
C19_Witness ==
    /\ producer = "endless"
    /\ concurrency_limit = 1
    /\ Len(resources) = MaxFairTasks
    /\ surplus = 1
    /\ \A t \in Tasks : task[t] = "pending"
    /\ yielded = <<>>

\* C20: when the producer yields no task, download_all_resources ends
\* normally, without a record and without an exception, with a ceiling and
\* without one.
C20_NoTaskEndsNormally ==
    (resources = <<>> /\ pc # "collect")
    => /\ pc = "done"
       /\ raised = "None"
       /\ yielded = <<>>

\* ------------------------------------------------------------------------
\* C30: the result of _check_missing_files carries notes exactly when it
\* fails: the notes are None when the check succeeds, and on failure they
\* name exactly the resource names of the baseline that the new manifest
\* does not have.
C30_NotesIffFails ==
    last_call = "_check_missing_files" =>
        /\ outcome.raised = "None"
        /\ Result.success <=> Result.notes = None
        /\ ~Result.success =>
              Result.notes[1].files =
                  {b.name : b \in BaselineResources}
                      \ {n.name : n \in NewResources}

\* A failing call whose new manifest keeps one baseline name, drops another
\* and adds none
C30_Witness ==
    /\ last_call = "_check_missing_files"
    /\ ~Result.success
    /\ Result.notes # None
    /\ Cardinality(Result.notes[1].files) = 1
    /\ \E b \in BaselineResources : \E n \in NewResources : n.name = b.name

\* ------------------------------------------------------------------------
\* C27: once the tasks are split, with a ceiling C the K tasks are in
\* ceil(K/C) consecutive batches in submission order: the i-th submitted task
\* (counted from 0) is in batch floor(i/C), every batch but the last has
\* exactly C tasks, the last has between 1 and C, and no batch is empty;
\* with no ceiling the K >= 1 tasks are one batch.
C27_ConsecutiveBatches ==
    (pc # "collect" /\ raised # "ZeroDivisionError") =>
        LET K == Len(resources)
            C == concurrency_limit
            N == Len(resource_chunks)
        IN /\ \A n \in 1..N : resource_chunks[n] # <<>>
           /\ C # 0 =>
                 /\ N * C >= K /\ (N - 1) * C < K
                 /\ \A i \in 0..(K - 1) :
                       LET n == (i \div C) + 1 IN
                       /\ n \in 1..N
                       /\ resource_chunks[n][(i % C) + 1] = resources[i + 1]
                 /\ \A n \in 1..(N - 1) : Len(resource_chunks[n]) = C
                 /\ N >= 1 => Len(resource_chunks[N]) = K - (N - 1) * C
           /\ C = 0 => N = 1 /\ resource_chunks[1] = resources

\* Three tasks under a ceiling of two: a full batch and a last batch of one,
\* both run to their end
C27_Witness ==
    /\ pc = "done"
    /\ concurrency_limit = 2
    /\ Len(resources) = 3
    /\ resource_chunks = << <<1, 2>>, <<3>> >>
    /\ chunk = 2

\* ------------------------------------------------------------------------
\* C29: the download directory is swapped only between batches: no step
\* changes download_directory while a task is started and not yet completed,
\* and every task that has read the directory has read a single one, the
\* one its batch was started with, never the one allocated for the next
\* batch.
C29_SwapOnlyBetweenBatches ==
    [][ /\ download_directory' # download_directory => InFlight = {}
        /\ \A t \in DOMAIN observed' :
              observed'[t] =
                  {IF directory_per_resource_chunk
                   THEN ChunkIndex(t)' - 1 ELSE 0} ]_vars

\* After a rotation a task of the second batch runs in the second
\* directory; the tasks of the first batch have only seen the first
C29_Witness ==
    /\ directory_per_resource_chunk
    /\ concurrency_limit = 2
    /\ download_directory = 1
    /\ task[3] = "running"
    /\ 3 \in DOMAIN observed /\ observed[3] = {1}
    /\ {1, 2} \subseteq DOMAIN observed
    /\ observed[1] = {0} /\ observed[2] = {0}

\* ------------------------------------------------------------------------
\* C28: with a producer that ends, an event loop that runs every ready task
\* to its end and a consumer that keeps asking, every run ends: eventually
\* all K records have been yielded or the run has been left with a task's
\* error (the task's own exception, or the AttributeError its result gives
\* when it is no record); and every task of a started batch eventually
\* completes, unless the run is aborted first.
C28_Terminates ==
    /\ (producer = "finite") ~>
          \/ pc = "aborted" /\ raised_by # {}
          \/ pc \in {"done", "raised"} /\ Len(yielded) = Len(resources)
    /\ \A t \in Tasks :
          (producer = "finite" /\ task[t] \in {"scheduled", "running"}) ~>
              (task[t] \in {"done", "done_other", "failed"} \/ pc = "aborted")

\* A run of two batches over three tasks that has yielded all its records
C28_Witness ==
    /\ producer = "finite"
    /\ pc = "done"
    /\ concurrency_limit = 2
    /\ Len(resources) = 3
    /\ Len(yielded) = 3
    /\ \A t \in 1..3 : task[t] = "done"

\* ------------------------------------------------------------------------
\* The archivers of the eia package: only_years, valid_year, get_resources
\* and the awaitables it yields

\* The most table links a page gives
MaxLinks == 2

\* The years the two archivers and the callers of valid_year name
Years == {2015, 2018, 2020}

\* A year given to valid_year: an int, or a str, kept as the sequence of its
\* characters, a decimal digit 0..9 or the letter "x" written 10
IntYear(n) == [kind |-> "int", value |-> n, digits |-> <<>>]
StrYear(ds) == [kind |-> "str", value |-> 0, digits |-> ds]

YearArguments ==
    {IntYear(y) : y \in Years \cup {2021}}
        \cup {StrYear(ds) : ds \in {<<2, 0, 1, 8>>, <<2, 0, 2, 0>>,
                                    <<2, 0, 2, 1>>, <<0, 2, 0, 2, 0>>,
                                    <<2, 0, 10, 0>>, <<>>}}

\* The only_years argument of the constructor: None, or a list of years
OnlyYearsArguments == {None} \cup {Some(ys) : ys \in SUBSET Years}

\* if only_years is None: only_years = []; self.only_years = only_years
OnlyYears(only_years_argument) ==
    IF only_years_argument = None THEN {} ELSE only_years_argument[1]

\* int() accepts a str made of decimal digits and of nothing else
IsNumeric(ds) == ds # <<>> /\ \A i \in DOMAIN ds : ds[i] \in 0..9

\* The value of a string of decimal digits, read from the left
RECURSIVE ParseInt(_)
ParseInt(ds) ==
    IF ds = <<>> THEN 0
    ELSE 10 * ParseInt(SubSeq(ds, 1, Len(ds) - 1)) + ds[Len(ds)]

\* A slip: the year is looked up as it was given, and no str is an int
IntOfNoConversion(y) == IF y.kind = "int" THEN y.value ELSE 0 - 1

\* int(year)
IntOf(y) == IF y.kind = "int" THEN y.value ELSE ParseInt(y.digits)

\* return (not self.only_years) or int(year) in self.only_years
valid_year(y) ==
    IF only_years = {}
    THEN Returned(TRUE)
    ELSE IF y.kind = "str" /\ ~IsNumeric(y.digits)
         THEN Raised("ValueError")
         ELSE Returned(IntOf(y) \in only_years)

\* for year in [2020, 2015]
EiaRECSYears == <<2020, 2015>>

\* for year in [2018]
EiaMECSYears == <<2018>>

\* The years get_resources goes through, one awaitable each
GetResourcesYears(a) ==
    IF a = "EiaRECSArchiver" THEN EiaRECSYears ELSE EiaMECSYears

\* What an awaitable resolves to: a ResourceInfo, a list of them, or None
ResourceInfo(local_path, partitions) ==
    [kind |-> "ResourceInfo",
     items |-> <<[local_path |-> local_path, partitions |-> partitions]>>]
ListOf(infos) ==
    [kind |-> "list", items |-> [i \in DOMAIN infos |-> infos[i].items[1]]]
NoneValue == [kind |-> "NoneType", items |-> <<>>]

\* EiaRECSArchiver.get_year_resources: every table link is downloaded; a
\* file that is no skipped HTML page goes to add_to_archive, called with the
\* keywords zip_path and filename that its signature does not have; the
\* one ResourceInfo of the year is returned in the list `tables`
EiaRECSGetYearResources(y, links, added, download_ok) ==
    IF links > 0 /\ ~download_ok
    THEN Raised("DownloadError")
    ELSE IF added > 0
         THEN Raised("TypeError")
         ELSE Returned(ListOf(<<ResourceInfo(<<"eia-recs", y>>, y)>>))

\* EiaMECSArchiver.get_year_resources: every table link is downloaded and a
\* ResourceInfo is appended to `tables`; the function ends without a return
EiaMECSGetYearResources(y, links, download_ok) ==
    IF links > 0 /\ ~download_ok
    THEN Raised("DownloadError")
    ELSE Returned(NoneValue)

InitEia ==
    /\ concurrency_limit = 0
    /\ producer = "finite"
    /\ directory_per_resource_chunk = FALSE
    /\ InitArchiver
    /\ DefaultChecks
    /\ test_results = <<>>
    /\ records = <<>>
    /\ set_order = VALID_PARTITION_RANGES
    /\ baseline_datapackage = None
    /\ new_datapackage = [resources |-> <<>>]
    /\ InitNoCall
    /\ InitNoZip
    /\ fail_on_empty_invalid_files = TRUE
    /\ archiver \in {"EiaRECSArchiver", "EiaMECSArchiver"}
    /\ only_years \in {OnlyYears(a) : a \in OnlyYearsArguments}
    /\ year = None
    /\ year_tasks = <<>>
    /\ resolved = << >>
    /\ document = <<>>
    /\ filter_pattern = None

\* get_resources is asked for its next item and yields the awaitable of the
\* next year of its list
GetResourcesYield ==
    /\ Len(year_tasks) < Len(GetResourcesYears(archiver))
    /\ year_tasks' =
           Append(year_tasks, GetResourcesYears(archiver)[Len(year_tasks) + 1])
    /\ UNCHANGED <<fail_on_empty_invalid_files, archiver, only_years, year,
                   resolved, document, filter_pattern>>
    /\ UNCHANGED <<driver_vars, validate_vars, zip_vars>>

\* The awaitable i is awaited: its page has `links` table links, `added` of
\* the downloaded files reach add_to_archive, the downloads succeed or not
AwaitYearResources(i, links, added, download_ok) ==
    /\ i \in DOMAIN year_tasks
    /\ i \notin DOMAIN resolved
    /\ added <= links
    /\ resolved' =
           (i :> IF archiver = "EiaRECSArchiver"
                 THEN EiaRECSGetYearResources(year_tasks[i], links, added,
                                              download_ok)
                 ELSE EiaMECSGetYearResources(year_tasks[i], links,
                                              download_ok))
               @@ resolved
    /\ UNCHANGED <<fail_on_empty_invalid_files, archiver, only_years, year,
                   year_tasks, document, filter_pattern>>
    /\ UNCHANGED <<driver_vars, validate_vars, zip_vars>>

\* self.valid_year(y)
ValidYear(y) ==
    /\ year' = Some(y)
    /\ last_call' = "valid_year"
    /\ outcome' = valid_year(y)
    /\ UNCHANGED <<check_inputs, previous_outcome>>
    /\ UNCHANGED <<fail_on_empty_invalid_files, archiver, only_years,
                   year_tasks, resolved, document, filter_pattern>>
    /\ UNCHANGED <<driver_vars, zip_vars>>

NextEia ==
    \/ GetResourcesYield
    \/ \E i \in DOMAIN year_tasks, links \in 0..MaxLinks, added \in 0..MaxLinks,
          download_ok \in BOOLEAN :
          AwaitYearResources(i, links, added, download_ok)
    \/ \E y \in YearArguments : ValidYear(y)

SpecEia == InitEia /\ [][NextEia]_vars

\* ------------------------------------------------------------------------
\* Vocabulary of the properties of the eia archivers

\* 10 to the power n
RECURSIVE PowerOfTen(_)
PowerOfTen(n) == IF n = 0 THEN 1 ELSE 10 * PowerOfTen(n - 1)

\* The integer a year argument stands for
RECURSIVE PlaceValues(_)
PlaceValues(ds) ==
    IF ds = <<>> THEN 0
    ELSE Head(ds) * PowerOfTen(Len(ds) - 1) + PlaceValues(Tail(ds))

IntegerValue(y) ==
    IF y.kind = "int" THEN y.value ELSE PlaceValues(y.digits)

\* The argument of the last valid_year
YearArgument == year[1]

\* C26: valid_year(y) is true for every year when only_years is empty (as it
\* is when None was given); otherwise, for y an int or a string of decimal
\* digits, it is true exactly when the integer value of y is in only_years.
C26_ValidYear ==
    (last_call = "valid_year" /\ year # None) =>
        /\ only_years = {} => outcome = Returned(TRUE)
        /\ ( /\ only_years # {}
             /\ YearArgument.kind = "str" => IsNumeric(YearArgument.digits) )
           => /\ outcome.raised = "None"
              /\ outcome.value[1] <=> IntegerValue(YearArgument) \in only_years

\* valid_year("2020") is true with only_years = [2018, 2020], and a year
\* that is not listed is refused
C26_Witness ==
    /\ last_call = "valid_year"
    /\ only_years = {2018, 2020}
    /\ year = Some(StrYear(<<2, 0, 2, 0>>))
    /\ outcome = Returned(TRUE)

\* C22 (as claimed): get_resources yields an awaitable for a year only if
\* valid_year holds of that year, so that an archiver with a non-empty
\* only_years downloads the data of those years only.
C22_OnlyValidYears ==
    \A i \in DOMAIN year_tasks :
        valid_year(IntYear(year_tasks[i])) = Returned(TRUE)

\* C21 (as claimed): an awaitable yielded by get_resources, once awaited,
\* has raised or has returned one ResourceInfo, with its local_path and
\* partitions.
C21_ResolvesToOneRecord ==
    \A i \in DOMAIN resolved :
        \/ resolved[i].raised # "None"
        \/ /\ resolved[i].value[1].kind = "ResourceInfo"
           /\ Len(resolved[i].value[1].items) = 1

\* ------------------------------------------------------------------------
\* Vocabulary of the file-level validations

\* The required_for_run_success of the three validations of one record
RequiredOf(validations) ==
    [i \in DOMAIN validations |-> validations[i].required_for_run_success]

\* C23 (as claimed): each of the three file-level validations of a yielded
\* record can be made fatal or advisory on its own: whatever is wanted of
\* the three, some configuration of the archiver gives it.
C23_IndependentlyToggleable ==
    \A t \in Range(yielded) :
        \A wanted \in [1..3 -> BOOLEAN] :
            \E flag \in BOOLEAN :
                RequiredOf(ValidateResource(t, flag)) = wanted

\* C23 (amended): the three file-level validations of a record are called
\* with one and the same flag, fail_on_empty_invalid_files: every entry the
\* driver logs is required_for_run_success exactly when that flag is set, so
\* the three are fatal together or advisory together.
C23_OneFlagForAll ==
    /\ \A i \in DOMAIN file_validations :
           file_validations[i].required_for_run_success
               = fail_on_empty_invalid_files
    /\ \A t \in Range(yielded) :
           \A flag \in BOOLEAN :
               RequiredOf(ValidateResource(t, flag)) = <<flag, flag, flag>>

\* A subclass that sets the flag to False has yielded two records: the six
\* validations logged are all advisory
C23_Witness ==
    /\ ~fail_on_empty_invalid_files
    /\ Len(yielded) = 2
    /\ Len(file_validations) = 6
    /\ \A i \in 1..6 : ~file_validations[i].required_for_run_success

\* ------------------------------------------------------------------------
\* The four manifest checks under every setting of their four flags

\* Manifests of at most one resource, without partitions
SmallPackages == {dp \in DataPackages : Len(dp.resources) <= 1}

\* Manifests of one partitioned resource
SmallPartitionedPackages ==
    {dp \in PartitionedPackages : Len(dp.resources) = 1}

InitFlags ==
    /\ concurrency_limit = 0
    /\ producer = "finite"
    /\ directory_per_resource_chunk = FALSE
    /\ InitArchiver
    /\ fail_on_missing_files \in BOOLEAN
    /\ fail_on_file_size_change \in BOOLEAN
    /\ allowed_file_rel_diff = <<1, 4>>
    /\ fail_on_dataset_size_change \in BOOLEAN
    /\ allowed_dataset_rel_diff = <<3, 20>>
    /\ fail_on_data_continuity \in BOOLEAN
    /\ test_results = <<>>
    /\ records = <<>>
    /\ set_order = VALID_PARTITION_RANGES
    /\ baseline_datapackage \in {None} \cup {Some(dp) : dp \in SmallPackages}
    /\ new_datapackage \in SmallPackages \cup SmallPartitionedPackages
    /\ InitNoCall
    /\ fail_on_empty_invalid_files = TRUE
    /\ InitNoSubclass
    /\ InitNoZip

NextFlags ==
    \/ CheckMissingFiles
    \/ CheckFileSize
    \/ CheckDatasetSize
    \/ CheckDataContinuity

SpecFlags == InitFlags /\ [][NextFlags]_vars

\* The configuration flag of the check that was called last
OwnFlag ==
    CASE last_call = "_check_missing_files" -> fail_on_missing_files
      [] last_call = "_check_file_size" -> fail_on_file_size_change
      [] last_call = "_check_dataset_size" -> fail_on_dataset_size_change
      [] last_call = "_check_data_continuity" -> fail_on_data_continuity

\* C24: the result a manifest check returns has required_for_run_success
\* equal to that check's own flag (fail_on_missing_files,
\* fail_on_file_size_change, fail_on_dataset_size_change,
\* fail_on_data_continuity), whatever the other three flags are and whether
\* the check succeeded or not.
C24_OwnFlag ==
    (last_call # "None" /\ outcome.raised = "None") =>
        Result.required_for_run_success = OwnFlag

\* The dataset size check fails with its own flag off and the other three
\* on: its result is advisory
C24_Witness ==
    /\ last_call = "_check_dataset_size"
    /\ ~fail_on_dataset_size_change
    /\ fail_on_missing_files
    /\ fail_on_file_size_change
    /\ fail_on_data_continuity
    /\ outcome.raised = "None"
    /\ ~Result.success
    /\ ~Result.required_for_run_success

\* ------------------------------------------------------------------------
\* get_hyperlinks and the parser _HyperlinkExtractor

\* The values an href is given, as sequences of characters: "", "b", "ab",
\* "ba"
Hrefs == {<<>>, <<"b">>, <<"a", "b">>, <<"b", "a">>}

\* A start tag as HTMLParser hands it to handle_starttag: the tag name and
\* the (attr, val) pairs, names in lower case, val None for an attribute
\* written without a value (<a href>)
StartTag(tag, attr, val) ==
    [tag |-> tag, attrs |-> <<[attr |-> attr, val |-> val]>>]

StartTags ==
    {StartTag(tag, attr, val) :
        tag \in {"a", "link"}, attr \in {"href", "name"},
        val \in {None} \cup {Some(h) : h \in Hrefs}}

\* The pages: the start tags of a document, in document order
Documents == UNION {[1..n -> StartTags] : n \in 0..MaxLinks}

\* The filter patterns: None, or a regular expression made of literal
\* characters: "b", "ab" and the empty pattern
Patterns == {None} \cup {Some(p) : p \in {<<"b">>, <<"a", "b">>, <<>>}}

\* if tag == "a": for attr, val in attrs: if attr == "href":
\*     self.hyperlinks.add(val)
handle_starttag(hyperlinks, start_tag) ==
    IF start_tag.tag = "a"
    THEN hyperlinks \cup {start_tag.attrs[i].val :
                             i \in {j \in DOMAIN start_tag.attrs :
                                       start_tag.attrs[j].attr = "href"}}
    ELSE hyperlinks

\* parser.feed(text): handle_starttag for every start tag, in order
RECURSIVE Feed(_, _)
Feed(hyperlinks, doc) ==
    IF doc = <<>> THEN hyperlinks
    ELSE Feed(handle_starttag(hyperlinks, Head(doc)), Tail(doc))

\* filter_pattern.search(link): the pattern matches somewhere in the link
Search(pattern, link) ==
    \E i \in 1..(Len(link) + 1) :
        /\ i + Len(pattern) - 1 <= Len(link)
        /\ SubSeq(link, i, i + Len(pattern) - 1) = pattern

\* A compiled pattern is truthy, the empty one too; search(None) raises
\* TypeError
get_hyperlinks(doc, pattern) ==
    LET hyperlinks == Feed({}, doc) IN
    IF pattern # None
    THEN IF None \in hyperlinks
         THEN Raised("TypeError")
         ELSE Returned({link \in hyperlinks : Search(pattern[1], link[1])})
    ELSE Returned(hyperlinks)

InitHyperlinks ==
    /\ concurrency_limit = 0
    /\ producer = "finite"
    /\ directory_per_resource_chunk = FALSE
    /\ InitArchiver
    /\ DefaultChecks
    /\ test_results = <<>>
    /\ records = <<>>
    /\ set_order = VALID_PARTITION_RANGES
    /\ baseline_datapackage = None
    /\ new_datapackage = [resources |-> <<>>]
    /\ InitNoCall
    /\ InitNoZip
    /\ fail_on_empty_invalid_files = TRUE
    /\ archiver = "MockArchiver"
    /\ only_years = {}
    /\ year = None
    /\ year_tasks = <<>>
    /\ resolved = << >>
    /\ document \in Documents
    /\ filter_pattern \in Patterns

\* await self.get_hyperlinks(url, filter_pattern), the page at url being
\* `document`
GetHyperlinks ==
    /\ last_call' = "get_hyperlinks"
    /\ outcome' = get_hyperlinks(document, filter_pattern)
    /\ UNCHANGED <<check_inputs, previous_outcome>>
    /\ UNCHANGED <<driver_vars, zip_vars, archiver_vars>>

NextHyperlinks == GetHyperlinks

SpecHyperlinks == InitHyperlinks /\ [][NextHyperlinks]_vars

\* ------------------------------------------------------------------------
\* Vocabulary of the properties of get_hyperlinks

\* The href attributes of the anchor tags of the page
AnchorHrefAttributes ==
    {a \in UNION {Range(document[i].attrs) :
                     i \in {j \in DOMAIN document : document[j].tag = "a"}} :
        a.attr = "href"}

\* The values they are given
AnchorHrefs == {a.val[1] : a \in {b \in AnchorHrefAttributes : b.val # None}}

\* The pattern occurs in the link, from some place on
OccursIn(pattern, link) ==
    \E before, after \in 0..Len(link) :
        /\ before + Len(pattern) + after = Len(link)
        /\ \A k \in 1..Len(pattern) : link[before + k] = pattern[k]

\* C25 (as claimed): get_hyperlinks returns the set of the distinct href
\* values of the anchor tags of the page: all of them without a pattern,
\* and with a pattern exactly those in which the pattern matches somewhere;
\* an href of another tag is never returned.
C25_HrefsOfAnchors ==
    last_call = "get_hyperlinks" =>
        /\ outcome.raised = "None"
        /\ outcome.value[1] =
              {Some(h) : h \in {g \in AnchorHrefs :
                                   \/ filter_pattern = None
                                   \/ OccursIn(filter_pattern[1], g)}}

\* The same, for the pages whose anchors all give their href a value
C25_HrefsOfAnchorsWithValues ==
    (last_call = "get_hyperlinks"
        /\ \A a \in AnchorHrefAttributes : a.val # None)
    => C25_HrefsOfAnchors

\* ------------------------------------------------------------------------
\* C34 (as claimed): the result of _check_dataset_size is consistent with
\* itself, as that of the per-file check is: success is false exactly when
\* notes are present, for every baseline, new manifest and threshold, a
\* relative change equal to the threshold included.
C34_FailsIffNotes ==
    (last_call = "_check_dataset_size" /\ outcome.raised = "None") =>
        (~Result.success <=> Result.notes # None)

\* ------------------------------------------------------------------------
\* download_file and the bytes its target holds

\* The bytes of one response
ResponseBytes(response) ==
    IF response = "empty" THEN <<>> ELSE <<response>>

\* C33 (as claimed): after download_file returns, the target holds exactly
\* the bytes of the response it has just read, whether the target is a path
\* on disk or a buffer in memory, and also when a retry of download_zipfile
\* writes the same target again
C33_LastResponseOnly ==
    [][\A response \in Responses :
          DownloadFile(response) =>
              file_content' = ResponseBytes(response)]_vars

\* ------------------------------------------------------------------------
\* What validate_dataset and its checks leave as they found it

\* C32: validate_dataset and the four checks it calls are read-only: a call
\* leaves the baseline manifest, the new manifest, the records mapping and
\* the validation log self.file_validations as they were, so that calls in
\* a row never grow or reorder the log.
C32_ReadOnly ==
    [][/\ baseline_datapackage' = baseline_datapackage
       /\ new_datapackage' = new_datapackage
       /\ records' = records
       /\ file_validations' = file_validations]_vars

\* A second call in a row has returned, on a baseline, a partitioned new
\* manifest, a records mapping of one record and a log of two files
C32_Witness ==
    /\ last_call = "validate_dataset"
    /\ previous_outcome # NoCall
    /\ outcome.raised = "None"
    /\ baseline_datapackage # None
    /\ \E i \in DOMAIN new_datapackage.resources :
          new_datapackage.resources[i].parts # <<>>
    /\ records # <<>>
    /\ Len(file_validations) > 3

\* ------------------------------------------------------------------------
\* The lifetime of the directories of a rotation

\* The directories on disk
Existing == ExistingDirectories(tmp_dir)

\* The tasks of the batch that ran in the directory d of a rotation
BatchOf(d) == {t \in Submitted : ChunkIndex(t) = d + 1}

\* The tasks of that batch that have returned a record
RecordsOf(d) == {t \in BatchOf(d) : task[t] = "done"}

\* The directories the rotation has allocated so far
Rotated == 1..(allocated - 1)

\* The directory of the batch exists whenever a record of it is yielded
ExistsAtYield ==
    pc = "yield" =>
        LET t == yielded[Len(yielded)] IN
        t \in DOMAIN observed => (\A d \in observed[t] : d \in Existing)

\* C35 (as claimed): with per-batch rotation, the directory a batch's tasks
\* wrote into still exists at every moment a record of that batch is yielded,
\* and a directory allocated by rotation is released only after all records
\* of the batch that used it have been yielded.
C35_ReleasedAfterBatchYielded ==
    directory_per_resource_chunk =>
        /\ ExistsAtYield
        /\ \A d \in Rotated :
              d \notin Existing => RecordsOf(d) \subseteq Range(yielded)

\* The generator has ended before its last batch was over: an exception
\* left it, or the consumer closed it at a yield
EndedEarly == pc \in {"aborted", "closed"}

\* C35 (amended): with per-batch rotation, the directory a batch's tasks
\* wrote into still exists at every moment a record of that batch is
\* yielded. A directory allocated by rotation is released at the rotation
\* that follows the last record of its batch, so after all the records of
\* its batch have been yielded, or, when it is the directory of the batch in
\* flight, at the end of a generator that an error or the consumer ends
\* early; a generator that has ended early yields no further record, so a
\* record of that batch not yet yielded is never handed to the caller.
C35_ReleasedAtRotationOrEnd ==
    /\ [](directory_per_resource_chunk =>
            /\ ExistsAtYield
            /\ \A d \in Rotated :
                  d \notin Existing =>
                      \/ RecordsOf(d) \subseteq Range(yielded)
                      \/ /\ EndedEarly
                         /\ d = download_directory
                         /\ chunk = d + 1)
    /\ [][EndedEarly => (yielded' = yielded /\ pc' = pc)]_vars

\* The record of the third batch is being yielded from the third directory;
\* the second directory went at the rotation that followed the record of
\* its batch
C35_Witness ==
    /\ directory_per_resource_chunk
    /\ pc = "yield"
    /\ chunk = 3
    /\ tmp_dir = Some(2)
    /\ 1 \notin Existing
    /\ RecordsOf(1) # {}
    /\ RecordsOf(1) \subseteq Range(yielded)
    /\ yielded[Len(yielded)] \in DOMAIN observed
    /\ observed[yielded[Len(yielded)]] = {2}

\* ------------------------------------------------------------------------
\* What the continuity check collects from resources of several keys

\* The values the partitioned resources list under their first key
FirstKeyPeriods == UNION {Range(r.parts[1].value.items) : r \in PartitionedResources}

\* A value is listed twice under first keys
FirstKeyRepeated ==
    \E p \in FirstKeyPeriods :
        \/ \E r \in PartitionedResources :
              Occurrences(r.parts[1].value.items, p) > 1
        \/ \E r1, r2 \in PartitionedResources :
              /\ r1 # r2
              /\ p \in Range(r1.parts[1].value.items)
              /\ p \in Range(r2.parts[1].value.items)

\* The month a value stands for, counted from year 0: a quarter is its first
\* month, a year is its January
MonthOf(p) ==
    IF p.fmt = "q" THEN 12 * p.y + 3 * p.n - 3 ELSE 12 * p.y + p.n - 1

\* Every quarter start (key year_quarter) or month start (key year_month)
\* from the earliest to the latest first-key value is a first-key value
FirstKeyGapFree(key) ==
    LET months == {MonthOf(p) : p \in FirstKeyPeriods}
    IN \A a, b \in months : \A m \in a..b :
          (key = "year_month" \/ m % 3 = 0) => m \in months

\* C31: _check_data_continuity tests the values each partitioned resource
\* stores under its first key, and nothing of a resource without partitions,
\* while the key names are collected over all keys: the test runs as soon as
\* a recognized key stands anywhere in a resource, and then a resource whose
\* first key is another one has that key's values tested.
C31_FirstKeyOnly ==
    last_call = "_check_data_continuity" =>
        /\ outcome.raised = "None"
        /\ ~TimePartitioned => (Result.success /\ Result.notes # None)
        /\ \A key \in Range(VALID_PARTITION_RANGES) :
              KeysUsed \cap Range(VALID_PARTITION_RANGES) = {key} =>
                  (Result.success <=>
                      (~FirstKeyRepeated /\ FirstKeyGapFree(key)))

\* A resource lists the years 1995 and 1996 under its first key and one
\* quarter under year_quarter, next to a resource without partitions: the
\* years are tested as quarters and the check fails
C31_Witness ==
    /\ last_call = "_check_data_continuity"
    /\ Cardinality(PartitionedResources) = 1
    /\ Len(new_datapackage.resources) = 2
    /\ \E r \in PartitionedResources :
          /\ r.parts[1].key = "year"
          /\ r.parts[1].value.items
                = <<Period("y", 1995, 1), Period("y", 1996, 1)>>
          /\ Len(r.parts) = 2
          /\ r.parts[2].key = "year_quarter"
    /\ ~Result.success

\* C36 (as claimed): the outcome of _check_data_continuity is a function of
\* the new manifest alone: two evaluations on one manifest, one that uses
\* year_quarter and year_month included, test the same kind and return the
\* same success value, whatever the iteration order of the set of key names.
C36_SameOutcome ==
    (last_call = "_check_data_continuity" /\ previous_outcome # NoCall) =>
        /\ outcome.raised = previous_outcome.raised
        /\ outcome.raised = "None" =>
              Result.success = previous_outcome.value[1].success

====
